---- MODULE Spec2Model ----
(***************************************************************************)
(* State-machine model of the agentloop orchestration engine: the store    *)
(* (proposals, missions, steps, events, triggers), the orchestrator tick   *)
(* with its eight phases, the inbound Mission Control sync, the approval   *)
(* engine, the worker engine and the REST handlers that mutate the store.  *)
(*                                                                         *)
(* Rows are kept in creation order; a row's id is its index.  Operations   *)
(* are serialized: a tick runs its phases one after the other (pc says     *)
(* which phase is next, "done" that the tick is about to return) and no    *)
(* other operation runs between two phases.                                *)
(* Time is counted in minutes.  Text is a sequence of one-character        *)
(* strings, so that lower-casing and substring search are computed.        *)
(***************************************************************************)
EXTENDS Integers, Sequences, FiniteSets, TLC

(***************************************************************************)
(* Bounds of the model.                                                    *)
(***************************************************************************)
MaxProposals == 2
MaxReviewedProposals == 1
MaxWorkedProposals == 1
MaxPostedMissions == 1
MaxTriggerSteps == 2
MaxEvents == 6
\* The work cycles followed commit by commit in one behaviour.
MaxCycles == 2
MaxTriggers == 1
\* The triggers of a project whose order of evaluation is followed.
MaxOrderedTriggers == 2
MaxPostedEvents == 1
\* The consecutive failures of one stream consumer, and the frames it reads.
MaxFailures == 8
MaxFrames == 2
\* The connections a consumer loses before the streams are stopped.
MaxDrops == 1
\* The lines a consumer reads from one connection.
MaxLines == 5
\* The plugin directories that hold a manifest.
MaxPlugins == 2

(***************************************************************************)
(* Program constants.                                                      *)
(***************************************************************************)
TriggerWindowMinutes == 5
ExpireMinutes == 7 * 24 * 60
RetentionMinutes == 30 * 24 * 60
NoTime == -1
DefaultOrderIndex == 999

\* The instants at which the clock is read (datetime.utcnow()): the start,
\* and the instants at and just past each cutoff.
RetentionInstants ==
    {0, ExpireMinutes, ExpireMinutes + 1, RetentionMinutes, RetentionMinutes + 1}
WindowInstants == {0, TriggerWindowMinutes, TriggerWindowMinutes + 1}
ExpiryInstants == {0, ExpireMinutes + 1}

None == "None"

(***************************************************************************)
(* Text.                                                                   *)
(***************************************************************************)
CharLower(c) ==
    CASE c = "A" -> "a" [] c = "B" -> "b" [] c = "C" -> "c" [] c = "D" -> "d"
      [] c = "E" -> "e" [] c = "F" -> "f" [] c = "G" -> "g" [] c = "H" -> "h"
      [] c = "I" -> "i" [] c = "J" -> "j" [] c = "K" -> "k" [] c = "L" -> "l"
      [] c = "M" -> "m" [] c = "N" -> "n" [] c = "O" -> "o" [] c = "P" -> "p"
      [] c = "Q" -> "q" [] c = "R" -> "r" [] c = "S" -> "s" [] c = "T" -> "t"
      [] c = "U" -> "u" [] c = "V" -> "v" [] c = "W" -> "w" [] c = "X" -> "x"
      [] c = "Y" -> "y" [] c = "Z" -> "z" [] OTHER -> c

\* Variant: a comparison that keeps the case of the text.
StrKeepCase(s) == s

\* str.lower()
StrLower(s) == [i \in 1..Len(s) |-> CharLower(s[i])]

\* keyword in text
StrContains(keyword, text) ==
    \E i \in 0..(Len(text) - Len(keyword)) :
        SubSeq(text, i + 1, i + Len(keyword)) = keyword

\* dict.get(key, default)
Get(map, key, default) == IF key \in DOMAIN map THEN map[key] ELSE default

KwFix == <<"f", "i", "x">>
KwPatch == <<"p", "a", "t", "c", "h">>
KwHotfix == <<"h", "o", "t", "f", "i", "x">>
KwTypo == <<"t", "y", "p", "o">>
KwDocs == <<"d", "o", "c", "s">>
KwDocumentation ==
    <<"d", "o", "c", "u", "m", "e", "n", "t", "a", "t", "i", "o", "n">>
KwReadme == <<"r", "e", "a", "d", "m", "e">>
KwTest == <<"t", "e", "s", "t">>
KwSpec == <<"s", "p", "e", "c">>
KwTesting == <<"t", "e", "s", "t", "i", "n", "g">>

TacticalKeywords == {KwFix, KwPatch, KwHotfix, KwTypo}
DocsKeywords == {KwDocs, KwDocumentation, KwReadme}
TestKeywords == {KwTest, KwSpec, KwTesting}

(***************************************************************************)
(* Configuration rows: projects, agents, the board map.                    *)
(***************************************************************************)
Projects ==
    [p1 |-> [slug |-> "alpha", status |-> "active"],
     p2 |-> [slug |-> "omega", status |-> "decommissioned"]]

Agents ==
    [a1 |-> [project_id |-> "p1", status |-> "active",
             config |-> [auto_approve_proposals |-> TRUE,
                         capabilities |-> {"general_work"}]],
     a2 |-> [project_id |-> "p1", status |-> "active",
             config |-> [capabilities |-> {"write_code"}]],
     a3 |-> [project_id |-> "p2", status |-> "active",
             config |-> [capabilities |-> {"general_work"}]]]

BoardIds == <<"b1", "b2">>
BOARD_PROJECT_MAP == [b1 |-> "alpha", b2 |-> "omega"]

ProjectBySlug(slug) == {p \in DOMAIN Projects : Projects[p].slug = slug}

ActiveAgentsOf(project_id) ==
    {a \in DOMAIN Agents :
        Agents[a].project_id = project_id /\ Agents[a].status = "active"}

(***************************************************************************)
(* The store.                                                              *)
(***************************************************************************)
\* tick_start is a history variable: the rows as they were when the running
\* tick began, and the phases of the running tick in which an exception was
\* raised.  No operation reads it.
\* errors is OrchestrationResult.errors of the running tick, asked the
\* ask-user messages the running tick posted to the boards, and work the
\* position of each agent's work cycle.
\* streams is the stream ingestor: the boards of _active_streams, each
\* consumer's position in _listen_sse, and the sync a task frame called.
VARIABLES proposals, missions, steps, events, triggers, now, pc, tick_start,
          work, errors, asked, streams, tick_result, plugins

vars == <<proposals, missions, steps, events, triggers, now, pc, tick_start,
          work, errors, asked, streams, tick_result,
          plugins>>

\* The plugin manager before load_all: no manifest read, nothing sorted.
NoPlugins ==
    [pc |-> "idle", manifests |-> <<>>, in_degree |-> <<>>,
     dependents |-> <<>>, queue |-> <<>>, result |-> <<>>]

\* OrchestrationResult before the trigger phase, with the triggers the loop
\* of the phase took (order) and those whose action succeeded (succeeded).
NoResult == [triggers_evaluated |-> 0, triggers_fired |-> 0,
             order |-> <<>>, succeeded |-> {}]

NoTick == [proposals |-> <<>>, missions |-> <<>>, steps |-> <<>>,
           events |-> <<>>, raised |-> {}]

\* An agent that is not in a work cycle.
NoWork == [pc |-> "idle", step |-> 0, claimed_by |-> None, result |-> None]

\* _run_both: one consumer for the task stream and one for the approval
\* stream of each board.
StreamKinds == {"tasks", "approvals"}
Consumers == (DOMAIN BOARD_PROJECT_MAP) \X StreamKinds
ConsumersOf(boards) == boards \X StreamKinds

InitialBackoff == 1
BackoffCap == 60

\* A consumer that was never started.  failures counts the sleeps since the
\* last successful connect, slept is the length of the last sleep and frames
\* the frames given to the handler; no operation reads the three.
\* event_type and data_lines are the locals of the read loop; read is the
\* lines taken from the connection and dispatched the calls of on_event
\* made for them, which no operation reads either.
NoConsumer ==
    [pc |-> "none", backoff |-> InitialBackoff, cancelled |-> FALSE,
     failures |-> 0, slept |-> 0, frames |-> 0,
     event_type |-> <<>>, data_lines |-> <<>>,
     read |-> <<>>, dispatched |-> <<>>]

\* No sync callback is running.
NoSync == [pc |-> "idle", rows |-> <<>>]

NoStreams ==
    [active |-> {}, consumer |-> [c \in Consumers |-> NoConsumer],
     sync |-> NoSync, stopped |-> FALSE]

Ids(rows) == 1..Len(rows)

StepsOf(stepRows, mission_id) ==
    {i \in Ids(stepRows) : stepRows[i].mission_id = mission_id}

MissionsOf(missionRows, proposal_id) ==
    {i \in Ids(missionRows) : missionRows[i].proposal_id = proposal_id}

Init ==
    /\ proposals = <<>>
    /\ missions = <<>>
    /\ steps = <<>>
    /\ events = <<>>
    /\ triggers = <<>>
    /\ now = 0
    /\ pc = "idle"
    /\ tick_start = NoTick
    /\ work = [a \in DOMAIN Agents |-> NoWork]
    /\ errors = <<>>
    /\ asked = <<>>
    /\ streams = NoStreams
    /\ tick_result = NoResult
    /\ plugins = NoPlugins

(***************************************************************************)
(* Inbound sync: tasks of the boards become PENDING proposals.             *)
(***************************************************************************)
TitleFix == <<"F", "i", "x">>
TitleAdd == <<"A", "d", "d">>
PrioHigh == <<"H", "i", "g", "h">>
PrioLow == <<"l", "o", "w">>
PrioMedium == <<"m", "e", "d", "i", "u", "m">>

\* The tasks a board may hold.
TaskHigh ==
    [id |-> "t1", title |-> TitleFix, priority |-> PrioHigh, status |-> "inbox"]
TaskLow ==
    [id |-> "t2", title |-> TitleAdd, priority |-> PrioLow,
     status |-> "in_progress"]
TaskDone ==
    [id |-> "t3", title |-> TitleAdd, priority |-> PrioHigh, status |-> "done"]
TaskNoId == [title |-> TitleAdd, status |-> "inbox"]

\* What get_board_tasks may return for one board.
BoardResponses ==
    {<<>>, <<TaskHigh>>, <<TaskHigh, TaskHigh>>, <<TaskLow, TaskHigh>>,
     <<TaskDone, TaskNoId>>}

\* sync_tasks_for_project: the tasks that are open.
sync_tasks_for_project(tasks) ==
    SelectSeq(tasks, LAMBDA t : Get(t, "status", None) \in {"inbox", "in_progress"})

priority_map ==
    (<<"c", "r", "i", "t", "i", "c", "a", "l">> :> "critical")
    @@ (<<"h", "i", "g", "h">> :> "high")
    @@ (<<"m", "e", "d", "i", "u", "m">> :> "medium")
    @@ (<<"l", "o", "w">> :> "low")

TaskPriority(task) ==
    Get(priority_map, StrLower(Get(task, "priority", PrioMedium)), "medium")

SyncedProposal(task, board_id, project_id, agent_id, t) ==
    [agent_id |-> agent_id,
     project_id |-> project_id,
     title |-> Get(task, "title", <<"U">>),
     rationale |-> <<"Synced from Mission Control task ", task.id>>,
     priority |-> TaskPriority(task),
     status |-> "pending",
     auto_approve |-> TaskPriority(task) \in {"critical", "high"},
     reviewed_by |-> None,
     reviewed_at |-> NoTime,
     created_at |-> t,
     mc_task_id |-> task.id,
     mc_board_id |-> board_id]

\* Variant: a lookup that sees only the proposals still PENDING.
ExistingPending(props, mc_task_id) ==
    \E i \in Ids(props) :
        props[i].mc_task_id = mc_task_id /\ props[i].status = "pending"

\* select(Proposal).where(Proposal.mc_task_id == mc_task_id).first()
Existing(props, mc_task_id) ==
    \E i \in Ids(props) : props[i].mc_task_id = mc_task_id

RECURSIVE SyncTasks(_, _, _, _, _, _)
SyncTasks(props, tasks, board_id, project_id, agent_id, t) ==
    IF tasks = <<>> THEN props
    ELSE LET task == Head(tasks)
             mc_task_id == Get(task, "id", "")
             existing == Existing(props, mc_task_id)
             after == IF mc_task_id = "" \/ existing
                      THEN props
                      ELSE Append(props,
                                  SyncedProposal(task, board_id, project_id,
                                                 agent_id, t))
         IN  SyncTasks(after, Tail(tasks), board_id, project_id, agent_id, t)

\* One iteration of the loop over BOARD_PROJECT_MAP.  fetch is what the board
\* returns, pick is the row .first() yields among the project's active agents.
SyncBoard(props, board_id, fetch, pick, t, skip_decommissioned) ==
    LET found == ProjectBySlug(BOARD_PROJECT_MAP[board_id])
    IN  IF found = {} THEN props
        ELSE LET project_id == CHOOSE p \in found : TRUE
             IN  IF skip_decommissioned
                    /\ Projects[project_id].status = "decommissioned"
                 THEN props
                 ELSE IF ActiveAgentsOf(project_id) = {} THEN props
                 ELSE SyncTasks(props, sync_tasks_for_project(fetch[board_id]),
                                board_id, project_id, pick[board_id], t)

RECURSIVE SyncBoards(_, _, _, _, _, _)
SyncBoards(props, boards, fetch, pick, t, skip_decommissioned) ==
    IF boards = <<>> THEN props
    ELSE SyncBoards(SyncBoard(props, Head(boards), fetch, pick, t,
                              skip_decommissioned),
                    Tail(boards), fetch, pick, t, skip_decommissioned)

\* OrchestrationEngine._sync_mission_control
sync_mission_control(props, fetch, pick, t) ==
    SyncBoards(props, BoardIds, fetch, pick, t, FALSE)

\* plugins/mission-control on_tick_sync
on_tick_sync(props, fetch, pick, t) ==
    SyncBoards(props, BoardIds, fetch, pick, t, TRUE)

\* The inputs of one sync: a response per board and the default agent chosen
\* for each board.
Fetches == [DOMAIN BOARD_PROJECT_MAP -> BoardResponses]
\* Board b1 holds one open task, which the approval rules accept.
OneTaskFetches ==
    {[b \in DOMAIN BOARD_PROJECT_MAP |->
         IF b = "b1" THEN <<TaskHigh>> ELSE <<>>]}
\* The board map is empty or the board is unreachable: nothing is fetched.
QuietFetches == [DOMAIN BOARD_PROJECT_MAP -> {<<>>}]

Picks ==
    {pick \in [DOMAIN BOARD_PROJECT_MAP -> DOMAIN Agents] :
        \A b \in DOMAIN BOARD_PROJECT_MAP :
            \A p \in ProjectBySlug(BOARD_PROJECT_MAP[b]) :
                pick[b] \in ActiveAgentsOf(p)}

(***************************************************************************)
(* ApprovalEngine.                                                         *)
(***************************************************************************)
TitleHasAny(title, keywords) ==
    \E keyword \in keywords : StrContains(keyword, StrLower(title))

\* Variant: the rules applied without looking at the proposal's flag.
should_auto_approve_unflagged(proposal) ==
    IF /\ proposal.priority \in {"low", "medium"}
       /\ proposal.agent_id \in DOMAIN Agents
       /\ Get(Agents[proposal.agent_id].config, "auto_approve_proposals", FALSE)
    THEN TRUE
    ELSE \/ TitleHasAny(proposal.title, TacticalKeywords)
         \/ TitleHasAny(proposal.title, DocsKeywords)
         \/ TitleHasAny(proposal.title, TestKeywords)

should_auto_approve(proposal) ==
    IF ~proposal.auto_approve THEN FALSE
    ELSE IF /\ proposal.priority \in {"low", "medium"}
            /\ proposal.agent_id \in DOMAIN Agents
            /\ Get(Agents[proposal.agent_id].config,
                   "auto_approve_proposals", FALSE)
         THEN TRUE
    ELSE IF TitleHasAny(proposal.title, TacticalKeywords) THEN TRUE
    ELSE IF TitleHasAny(proposal.title, DocsKeywords) THEN TRUE
    ELSE IF TitleHasAny(proposal.title, TestKeywords) THEN TRUE
    ELSE FALSE

process_pending_approvals(props, t) ==
    [i \in Ids(props) |->
        IF props[i].status = "pending" /\ should_auto_approve(props[i])
        THEN [props[i] EXCEPT !.status = "approved",
                              !.reviewed_by = "system",
                              !.reviewed_at = t]
        ELSE props[i]]

(***************************************************************************)
(* Trigger evaluation.  db is the part of the store the phase works on:    *)
(* [missions, steps, events, triggers].                                    *)
(***************************************************************************)
\* Variant: a condition is met as soon as the payload has its key.
check_event_conditions_by_key(event, conditions) ==
    \A key \in DOMAIN conditions : key \in DOMAIN event.payload

check_event_conditions(event, conditions) ==
    \A key \in DOMAIN conditions :
        key \in DOMAIN event.payload /\ event.payload[key] = conditions[key]

EventMatches(event, trigger) ==
    LET pattern == trigger.event_pattern
    IN  /\ event.project_id = trigger.project_id
        /\ ("event_type" \in DOMAIN pattern
               => event.event_type = pattern.event_type)
        /\ ("conditions" \in DOMAIN pattern
               => check_event_conditions(event, pattern.conditions))

match_events_to_trigger(evts, trigger) ==
    SelectSeq(evts, LAMBDA e : EventMatches(e, trigger))

NewStep(mission_id, order_index, title, description, step_type) ==
    [mission_id |-> mission_id,
     order_index |-> order_index,
     title |-> title,
     description |-> description,
     step_type |-> step_type,
     status |-> "pending",
     claimed_by_agent_id |-> None,
     output |-> None,
     error |-> None,
     started_at |-> NoTime,
     completed_at |-> NoTime]

NewEvent(event_type, project_id, source_agent_id, payload, t) ==
    [event_type |-> event_type,
     project_id |-> project_id,
     source_agent_id |-> source_agent_id,
     payload |-> payload,
     created_at |-> t]

\* The events of the list that name a mission of the store.
EventsWithMission(db, evts) ==
    SelectSeq(evts, LAMBDA e : /\ "mission_id" \in DOMAIN e.payload
                               /\ e.payload.mission_id \in Ids(db.missions))

\* Variant: the action counts as done whether or not it found a mission.
create_step_from_trigger_always_done(db, action, evts, t) ==
    LET usable == EventsWithMission(db, evts)
    IN  IF usable = <<>> THEN [db |-> db, fired |-> TRUE]
        ELSE [db |-> [db EXCEPT !.steps =
                        Append(@, NewStep(Head(usable).payload.mission_id,
                                          Get(action, "order_index",
                                              DefaultOrderIndex),
                                          Get(action, "title",
                                              "Auto-generated step"),
                                          Get(action, "description",
                                              "Generated by trigger"),
                                          Get(action, "step_type", "other")))],
              fired |-> TRUE]

\* Returns [db, fired].
create_step_from_trigger(db, action, evts, t) ==
    LET usable == EventsWithMission(db, evts)
    IN  IF usable = <<>> THEN [db |-> db, fired |-> FALSE]
        ELSE [db |-> [db EXCEPT !.steps =
                        Append(@, NewStep(Head(usable).payload.mission_id,
                                          Get(action, "order_index",
                                              DefaultOrderIndex),
                                          Get(action, "title",
                                              "Auto-generated step"),
                                          Get(action, "description",
                                              "Generated by trigger"),
                                          Get(action, "step_type", "other")))],
              fired |-> TRUE]

AllStepsCompleted(stepRows, mission_id) ==
    /\ StepsOf(stepRows, mission_id) # {}
    /\ \A i \in StepsOf(stepRows, mission_id) : stepRows[i].status = "completed"

MissionCompletedEvent(missionRows, mission_id, t) ==
    NewEvent("mission.completed", missionRows[mission_id].project_id,
             missionRows[mission_id].assigned_agent_id,
             [mission_id |-> mission_id,
              proposal_id |-> missionRows[mission_id].proposal_id], t)

\* Variant: the action closing a mission whatever its status.
evaluate_mission_completion_from_trigger_any_status(db, action, evts, t) ==
    LET closable ==
            SelectSeq(EventsWithMission(db, evts),
                      LAMBDA e :
                          AllStepsCompleted(db.steps, e.payload.mission_id))
    IN  IF closable = <<>> THEN [db |-> db, fired |-> FALSE]
        ELSE LET m == Head(closable).payload.mission_id
             IN  [db |-> [db EXCEPT
                            !.missions[m].status = "completed",
                            !.missions[m].completed_at = t,
                            !.events = Append(@, MissionCompletedEvent(
                                                     db.missions, m, t))],
                  fired |-> TRUE]

evaluate_mission_completion_from_trigger(db, action, evts, t) ==
    LET closable ==
            SelectSeq(EventsWithMission(db, evts),
                      LAMBDA e :
                          /\ db.missions[e.payload.mission_id].status = "active"
                          /\ AllStepsCompleted(db.steps, e.payload.mission_id))
    IN  IF closable = <<>> THEN [db |-> db, fired |-> FALSE]
        ELSE LET m == Head(closable).payload.mission_id
             IN  [db |-> [db EXCEPT
                            !.missions[m].status = "completed",
                            !.missions[m].completed_at = t,
                            !.events = Append(@, MissionCompletedEvent(
                                                     db.missions, m, t))],
                  fired |-> TRUE]

\* Variant: an action type the engine does not know counts as done.
execute_trigger_action_lenient(db, trigger, evts, t) ==
    LET action == trigger.action
        action_type == Get(action, "type", None)
    IN  IF action_type = "create_step"
        THEN create_step_from_trigger(db, action, evts, t)
        ELSE IF action_type = "evaluate_mission_completion"
        THEN evaluate_mission_completion_from_trigger(db, action, evts, t)
        ELSE [db |-> db, fired |-> TRUE]

execute_trigger_action(db, trigger, evts, t) ==
    LET action == trigger.action
        action_type == Get(action, "type", None)
    IN  IF action_type = "create_step"
        THEN create_step_from_trigger(db, action, evts, t)
        ELSE IF action_type = "evaluate_mission_completion"
        THEN evaluate_mission_completion_from_trigger(db, action, evts, t)
        ELSE [db |-> db, fired |-> FALSE, raised |-> TRUE]

\* Variant: the trigger phase reading every event of the store.
RecentEventsUnbounded(evts, t) == evts

RecentEvents(evts, t) ==
    SelectSeq(evts, LAMBDA e : e.created_at >= t - TriggerWindowMinutes)

\* An entry of OrchestrationResult.errors: the phase that reported it and,
\* for a trigger that failed, its name.
TickError(phase, name) == [phase |-> phase, trigger |-> name]

\* The loop of _evaluate_triggers from trigger k on; recent was read before
\* the loop.
\* The query of the enabled triggers names no order: the store returns the
\* rows of the table as they were inserted.
RECURSIVE EvaluateFrom(_, _, _, _)
EvaluateFrom(db, k, recent, t) ==
    IF k > Len(db.triggers) THEN db
    ELSE IF ~db.triggers[k].enabled THEN EvaluateFrom(db, k + 1, recent, t)
    ELSE LET seen == [db EXCEPT !.result.triggers_evaluated = @ + 1,
                                !.result.order = Append(@, k)]
             matching == match_events_to_trigger(recent, db.triggers[k])
         IN  IF matching = <<>> THEN EvaluateFrom(seen, k + 1, recent, t)
             ELSE LET r == execute_trigger_action(seen, db.triggers[k],
                                                  matching, t)
                      after == IF "raised" \in DOMAIN r
                               THEN [r.db EXCEPT !.errors = Append(@,
                                        TickError("triggers",
                                                  db.triggers[k].name))]
                               ELSE IF r.fired
                               THEN [r.db EXCEPT
                                       !.triggers[k].last_fired_at = t,
                                       !.result.triggers_fired = @ + 1,
                                       !.result.succeeded = @ \cup {k}]
                               ELSE r.db
                  IN  EvaluateFrom(after, k + 1, recent, t)

evaluate_triggers(db, t) == EvaluateFrom(db, 1, RecentEvents(db.events, t), t)

(***************************************************************************)
(* PluginManager: the order in which the plugins are loaded.               *)
(***************************************************************************)
\* The names of the plugin directories, as sorted(iterdir()) gives them, and
\* a name that no directory has.
PluginDirs == <<"p1", "p2", "p3", "p4">>
PluginNames == {PluginDirs[i] : i \in 1..MaxPlugins}
AbsentPlugin == "absent"

\* The depends_on lists of a manifest: up to two names, the same name twice
\* included.
DependsLists ==
    LET names == PluginNames \cup {AbsentPlugin}
    IN  {<<>>} \cup {<<x>> : x \in names}
               \cup {<<x, y>> : x \in names, y \in names}

\* The names of a list of manifests.
NamesOf(manifests) == {manifests[i].name : i \in Ids(manifests)}

\* by_name[name]
ByName(manifests, name) ==
    manifests[CHOOSE i \in Ids(manifests) : manifests[i].name = name]

\* The manifests discover() returns for the directories that hold one.
ManifestsOf(held, depends) ==
    LET Build[i \in 0..Len(PluginDirs)] ==
            IF i = 0 THEN <<>>
            ELSE IF PluginDirs[i] \in held
                 THEN Append(Build[i - 1],
                             [name |-> PluginDirs[i],
                              depends_on |-> depends[PluginDirs[i]]])
                 ELSE Build[i - 1]
    IN  Build[Len(PluginDirs)]

\* The first loop of _topological_sort for the dependencies of manifest m
\* from the k-th on.  Returns [in_degree, dependents].
RECURSIVE CountDepends(_, _, _, _)
CountDepends(acc, names, m, k) ==
    IF k > Len(m.depends_on) THEN acc
    ELSE LET dep == m.depends_on[k]
             counted == [acc EXCEPT !.in_degree[m.name] = @ + 1]
         IN  CountDepends(IF dep \in names
                          THEN [counted EXCEPT
                                  !.dependents[dep] = Append(@, m.name)]
                          ELSE counted,
                          names, m, k + 1)

RECURSIVE CountAll(_, _, _)
CountAll(acc, manifests, i) ==
    IF i > Len(manifests) THEN acc
    ELSE CountAll(CountDepends(acc, NamesOf(manifests), manifests[i], 1),
                  manifests, i + 1)

\* queue = [n for n, d in in_degree.items() if d == 0]: the names in the
\* order of the manifests.
InitialQueue(manifests, in_degree) ==
    LET names == [i \in Ids(manifests) |-> manifests[i].name]
    IN  SelectSeq(names, LAMBDA n : in_degree[n] = 0)

\* Variant: a dependent is queued as soon as one of its dependencies is
\* placed.
RECURSIVE ReleaseEarly(_, _)
ReleaseEarly(st, waiting) ==
    IF waiting = <<>> THEN st
    ELSE LET dependent == Head(waiting)
             lowered == [st EXCEPT !.in_degree[dependent] = @ - 1]
         IN  ReleaseEarly([lowered EXCEPT !.queue = Append(@, dependent)],
                          Tail(waiting))

\* The loop over dependents[node]: each loses one from its in_degree and is
\* queued when it reaches 0.
RECURSIVE Release(_, _)
Release(st, waiting) ==
    IF waiting = <<>> THEN st
    ELSE LET dependent == Head(waiting)
             lowered == [st EXCEPT !.in_degree[dependent] = @ - 1]
         IN  Release(IF lowered.in_degree[dependent] = 0
                     THEN [lowered EXCEPT !.queue = Append(@, dependent)]
                     ELSE lowered,
                     Tail(waiting))

\* load_all: discover() reads the manifests of the plugin directories.
Discover ==
    /\ plugins.pc = "idle"
    /\ \E held \in SUBSET PluginNames :
          \E depends \in [held -> DependsLists] :
              plugins' = [plugins EXCEPT
                            !.pc = "discovered",
                            !.manifests = ManifestsOf(held, depends)]
    /\ UNCHANGED <<proposals, missions, steps, events, triggers, now, pc,
                   tick_start, work, errors, asked, streams, tick_result>>

\* _topological_sort up to its while loop.
SortStart ==
    /\ plugins.pc = "discovered"
    /\ LET names == NamesOf(plugins.manifests)
           counted == CountAll([in_degree |-> [n \in names |-> 0],
                                dependents |-> [n \in names |-> <<>>]],
                               plugins.manifests, 1)
       IN  plugins' = [plugins EXCEPT
                         !.pc = "sorting",
                         !.in_degree = counted.in_degree,
                         !.dependents = counted.dependents,
                         !.queue = InitialQueue(plugins.manifests,
                                                counted.in_degree)]
    /\ UNCHANGED <<proposals, missions, steps, events, triggers, now, pc,
                   tick_start, work, errors, asked, streams, tick_result>>

\* One turn of the while loop: queue.pop(0) is placed and its dependents
\* are released.
SortStep ==
    /\ plugins.pc = "sorting"
    /\ plugins.queue # <<>>
    /\ LET node == Head(plugins.queue)
       IN  plugins' = Release([plugins EXCEPT
                                 !.queue = Tail(@),
                                 !.result = Append(@, node)],
                              plugins.dependents[node])
    /\ UNCHANGED <<proposals, missions, steps, events, triggers, now, pc,
                   tick_start, work, errors, asked, streams, tick_result>>

\* The queue is empty: _topological_sort returns result.
SortReturn ==
    /\ plugins.pc = "sorting"
    /\ plugins.queue = <<>>
    /\ plugins' = [plugins EXCEPT !.pc = "sorted"]
    /\ UNCHANGED <<proposals, missions, steps, events, triggers, now, pc,
                   tick_start, work, errors, asked, streams, tick_result>>

(***************************************************************************)
(* Mission lifecycle.                                                      *)
(***************************************************************************)
NewMission(props, proposal_id) ==
    [proposal_id |-> proposal_id,
     project_id |-> props[proposal_id].project_id,
     status |-> "planned",
     assigned_agent_id |-> props[proposal_id].agent_id,
     completed_at |-> NoTime]

RECURSIVE CreateMissionsFrom(_, _, _)
CreateMissionsFrom(props, msns, k) ==
    IF k > Len(props) THEN msns
    ELSE IF props[k].status = "approved" /\ MissionsOf(msns, k) = {}
         THEN CreateMissionsFrom(props, Append(msns, NewMission(props, k)), k + 1)
         ELSE CreateMissionsFrom(props, msns, k + 1)

create_missions_from_proposals(props, msns) == CreateMissionsFrom(props, msns, 1)

default_steps(mission_id) ==
    <<NewStep(mission_id, 0, "Research and Planning",
              "Research and plan the implementation", "research"),
      NewStep(mission_id, 1, "Implementation", "Implement the solution",
              "code"),
      NewStep(mission_id, 2, "Testing", "Test the implementation", "test"),
      NewStep(mission_id, 3, "Review", "Review and validate", "review")>>

\* Returns [missions, steps].
RECURSIVE CreateStepsFrom(_, _, _)
CreateStepsFrom(msns, stepRows, k) ==
    IF k > Len(msns) THEN [missions |-> msns, steps |-> stepRows]
    ELSE IF msns[k].status = "planned" /\ StepsOf(stepRows, k) = {}
         THEN CreateStepsFrom([msns EXCEPT ![k].status = "active"],
                              stepRows \o default_steps(k), k + 1)
         ELSE CreateStepsFrom(msns, stepRows, k + 1)

\* Variant: the steps are created and the missions left as they were.
create_steps_from_missions_unactivated(msns, stepRows) ==
    [missions |-> msns, steps |-> CreateStepsFrom(msns, stepRows, 1).steps]

create_steps_from_missions(msns, stepRows) == CreateStepsFrom(msns, stepRows, 1)

\* Variant: closure that does not ask for a step.
ShouldCompleteVacuously(msns, stepRows, m) ==
    /\ msns[m].status = "active"
    /\ \A i \in StepsOf(stepRows, m) : stepRows[i].status = "completed"

ShouldComplete(msns, stepRows, m) ==
    msns[m].status = "active" /\ AllStepsCompleted(stepRows, m)

\* Returns [missions, events].
RECURSIVE CheckCompletionsFrom(_, _, _, _, _)
CheckCompletionsFrom(msns, stepRows, evts, k, t) ==
    IF k > Len(msns) THEN [missions |-> msns, events |-> evts]
    ELSE IF ShouldComplete(msns, stepRows, k)
         THEN CheckCompletionsFrom(
                  [msns EXCEPT ![k].status = "completed",
                               ![k].completed_at = t],
                  stepRows, Append(evts, MissionCompletedEvent(msns, k, t)),
                  k + 1, t)
         ELSE CheckCompletionsFrom(msns, stepRows, evts, k + 1, t)

check_mission_completions(msns, stepRows, evts, t) ==
    CheckCompletionsFrom(msns, stepRows, evts, 1, t)

\* report_agent_activity: the comment posted to the task.
report_agent_activity(board_id, task_id, agent_name, action) ==
    [kind |-> "comment", board_id |-> board_id, task_id |-> task_id,
     content |-> <<"[AgentLoop] ", agent_name, ": ", action>>]

\* update_task_status with a comment, as _report_mission_to_mc calls it.
update_task_status(board_id, task_id, status, comment) ==
    [kind |-> "status", board_id |-> board_id, task_id |-> task_id,
     status |-> status, comment |-> comment]

\* _report_mission_to_mc: the calls made to the board for mission m.  The
\* results of the calls are not read.  A mission made from a proposal has
\* the proposal's title.
report_mission_to_mc(props, msns, m) ==
    LET proposal == props[msns[m].proposal_id]
        agent_name == IF msns[m].assigned_agent_id # None
                      THEN msns[m].assigned_agent_id ELSE "AgentLoop"
    IN  IF proposal.mc_task_id = None \/ proposal.mc_board_id = None
        THEN <<>>
        ELSE <<report_agent_activity(proposal.mc_board_id,
                                     proposal.mc_task_id, agent_name,
                                     <<"Mission completed: ", proposal.title>>),
               update_task_status(proposal.mc_board_id, proposal.mc_task_id,
                                  "review",
                                  <<"Completed by ", agent_name,
                                    " via AgentLoop.">>)>>

\* The calls of _check_mission_completions from mission k on: one report
\* for every mission the loop completes.
RECURSIVE ReportsFrom(_, _, _, _)
ReportsFrom(props, msns, stepRows, k) ==
    IF k > Len(msns) THEN <<>>
    ELSE (IF ShouldComplete(msns, stepRows, k)
          THEN report_mission_to_mc(props, msns, k) ELSE <<>>)
         \o ReportsFrom(props, msns, stepRows, k + 1)

\* Variant: a claimed step does not count as work still to come.
StuckMissionsDespiteClaim(props, msns, stepRows) ==
    {m \in Ids(msns) :
        /\ msns[m].status = "active"
        /\ StepsOf(stepRows, m) # {}
        /\ \E i \in StepsOf(stepRows, m) : stepRows[i].status = "failed"
        /\ ~\E i \in StepsOf(stepRows, m) :
               stepRows[i].status \in {"pending", "running"}
        /\ msns[m].proposal_id \in Ids(props)
        /\ props[msns[m].proposal_id].mc_board_id # None}

\* The missions the escalation phase asks the board about.
StuckMissions(props, msns, stepRows) ==
    {m \in Ids(msns) :
        /\ msns[m].status = "active"
        /\ StepsOf(stepRows, m) # {}
        /\ \E i \in StepsOf(stepRows, m) : stepRows[i].status = "failed"
        /\ ~\E i \in StepsOf(stepRows, m) :
               stepRows[i].status \in {"pending", "running", "claimed"}
        /\ msns[m].proposal_id \in Ids(props)
        /\ props[msns[m].proposal_id].mc_board_id # None}

FirstFailedStep(stepRows, m) ==
    CHOOSE i \in StepsOf(stepRows, m) :
        /\ stepRows[i].status = "failed"
        /\ \A j \in StepsOf(stepRows, m) :
               stepRows[j].status = "failed" => i <= j

\* The text the escalation phase sends about mission m.
StuckMessage(stepRows, m) ==
    LET failed_step == stepRows[FirstFailedStep(stepRows, m)]
    IN  [mission |-> m,
         failed_step |-> failed_step.title,
         step_type |-> failed_step.step_type,
         error |-> IF failed_step.error = None THEN "unknown"
                   ELSE failed_step.error]

\* integrations.mission_control.ask_user: the body posted to
\* /gateway/main/ask-user of the board, with what the board made of it; the
\* caller gets a result when the board accepted the call and None otherwise.
ask_user(board_id, content, correlation_id, accepted) ==
    [board_id |-> board_id, content |-> content,
     correlation_id |-> correlation_id, accepted |-> accepted]

\* The loop of _escalate_stuck_missions from mission k on.  answered: the
\* stuck missions for which ask_user returned a result.  Returns
\* [events, asked].
RECURSIVE EscalateFrom(_, _, _, _, _, _, _, _)
EscalateFrom(props, msns, stepRows, evts, calls, answered, k, t) ==
    IF k > Len(msns) THEN [events |-> evts, asked |-> calls]
    ELSE IF k \notin StuckMissions(props, msns, stepRows)
    THEN EscalateFrom(props, msns, stepRows, evts, calls, answered, k + 1, t)
    ELSE LET call == ask_user(props[msns[k].proposal_id].mc_board_id,
                              StuckMessage(stepRows, k),
                              <<"stuck-mission-", k>>, k \in answered)
             recorded ==
                 IF call.accepted
                 THEN Append(evts,
                         NewEvent("mission.escalated", msns[k].project_id,
                                  msns[k].assigned_agent_id,
                                  [mission_id |-> k,
                                   failed_step_id |-> FirstFailedStep(stepRows, k),
                                   reason |-> "stuck_failed_steps"], t))
                 ELSE evts
         IN  EscalateFrom(props, msns, stepRows, recorded,
                          Append(calls, call), answered, k + 1, t)

escalate_stuck_missions(props, msns, stepRows, evts, calls, answered, t) ==
    EscalateFrom(props, msns, stepRows, evts, calls, answered, 1, t)

(***************************************************************************)
(* Retention.                                                              *)
(***************************************************************************)
\* Variant: a cutoff that takes the event created exactly 30 days ago.
EventIsOldInclusive(event, t) == event.created_at <= t - RetentionMinutes

EventIsOld(event, t) == event.created_at < t - RetentionMinutes

ProposalIsStale(proposal, t) ==
    proposal.status = "pending" /\ proposal.created_at < t - ExpireMinutes

\* Returns [events, proposals].
cleanup_old_data(evts, props, t) ==
    [events |-> SelectSeq(evts, LAMBDA e : ~EventIsOld(e, t)),
     proposals |->
        [i \in Ids(props) |->
            IF ProposalIsStale(props[i], t)
            THEN [props[i] EXCEPT !.status = "expired"]
            ELSE props[i]]]

(***************************************************************************)
(* WorkerEngine.                                                           *)
(***************************************************************************)
step_capability_map ==
    [code |-> "write_code", test |-> "run_tests", review |-> "review_code",
     deploy |-> "deploy_code", research |-> "research",
     security |-> "security_audit", other |-> "general_work"]

\* Variant: general_work stands for no other capability.
can_agent_handle_step_exact(agent_id, step) ==
    LET capabilities == Get(Agents[agent_id].config, "capabilities", {})
        required == Get(step_capability_map, step.step_type, "general_work")
    IN  required \in capabilities

can_agent_handle_step(agent_id, step) ==
    LET capabilities == Get(Agents[agent_id].config, "capabilities", {})
        required == Get(step_capability_map, step.step_type, "general_work")
    IN  required \in capabilities \/ "general_work" \in capabilities

\* Variant: the selection query without its test of the claimant.
SelectableStepsOfAnyone(agent_id, msns, stepRows) ==
    {i \in Ids(stepRows) :
        /\ stepRows[i].status \in {"pending", "claimed"}
        /\ stepRows[i].mission_id \in Ids(msns)
        /\ msns[stepRows[i].mission_id].project_id = Agents[agent_id].project_id}

\* The rows the selection query returns, before the capability filter.
SelectableSteps(agent_id, msns, stepRows) ==
    {i \in Ids(stepRows) :
        /\ stepRows[i].claimed_by_agent_id \in {None, agent_id}
        /\ stepRows[i].status \in {"pending", "claimed"}
        /\ stepRows[i].mission_id \in Ids(msns)
        /\ msns[stepRows[i].mission_id].project_id = Agents[agent_id].project_id}

find_available_steps(agent_id, msns, stepRows) ==
    {i \in SelectableSteps(agent_id, msns, stepRows) :
        can_agent_handle_step(agent_id, stepRows[i])}

\* ORDER BY order_index ASC, created_at ASC
StepOrder(stepRows, i, j) ==
    \/ stepRows[i].order_index < stepRows[j].order_index
    \/ stepRows[i].order_index = stepRows[j].order_index /\ i <= j

\* Variant: the selection ordered by order_index descending.
FirstStepDescending(stepRows, available) ==
    CHOOSE i \in available : \A j \in available : StepOrder(stepRows, j, i)

\* available_steps[0]
FirstStep(stepRows, available) ==
    CHOOSE i \in available : \A j \in available : StepOrder(stepRows, i, j)

\* What a dispatch can come to: the agent answers ok with text, ok without
\* text or with another status; the call fails in transport (a timeout, a
\* nonzero exit, output that is not JSON); the CLI is not installed.
DispatchOutcomes == {"ok", "ok_empty", "error", "gateway_error", "unavailable"}

\* The outcomes for which _dispatch_to_gateway returns True.
Dispatched(outcome) == outcome \in {"ok", "ok_empty", "error"}

ResponseText == "response text"
NoTextOutput == "Agent completed but returned no text output."

\* The writes of _execute_step when it claims: none for a step the agent
\* saw as its own.
claim_row(step, seen_claimed_by, agent_id) ==
    IF seen_claimed_by # agent_id
    THEN [step EXCEPT !.claimed_by_agent_id = agent_id, !.status = "claimed"]
    ELSE step

\* The writes of _execute_step when it starts the step.
start_row(step, t) == [step EXCEPT !.status = "running", !.started_at = t]

\* Variant: every answer of the agent taken as a success.
dispatch_to_gateway_trusting(step, outcome, t) ==
    [step EXCEPT !.output = IF outcome = "ok" THEN ResponseText
                            ELSE NoTextOutput,
                 !.status = "completed", !.completed_at = t]

\* The writes of _dispatch_to_gateway for an answer of the agent.
dispatch_to_gateway(step, outcome, t) ==
    IF outcome = "ok"
    THEN [step EXCEPT !.output = ResponseText, !.status = "completed",
                      !.completed_at = t]
    ELSE IF outcome = "ok_empty"
    THEN [step EXCEPT !.output = NoTextOutput, !.status = "completed",
                      !.completed_at = t]
    ELSE [step EXCEPT !.error = <<"Agent returned status: ", outcome>>,
                      !.status = "failed", !.completed_at = t]

\* outputs.get(step_type, ...): the canned text of the step's type.
SimulatedOutput(step) == <<"simulated", step.step_type, step.title>>

\* The writes of _simulate_step_execution.
simulate_step_execution(step, t) ==
    [step EXCEPT !.output = SimulatedOutput(step), !.status = "completed",
                 !.completed_at = t]

\* The row after the dispatch: as the agent's answer says, or simulated when
\* _dispatch_to_gateway returned False.
finish_row(step, outcome, t) ==
    IF Dispatched(outcome) THEN dispatch_to_gateway(step, outcome, t)
    ELSE simulate_step_execution(step, t)

\* The event _execute_step records for step s, whose row is step.
step_event(msns, step, s, agent_id, outcome, t) ==
    IF Dispatched(outcome)
    THEN NewEvent(IF step.status = "completed" THEN "step.completed"
                                               ELSE "step.failed",
                  msns[step.mission_id].project_id, agent_id,
                  [step_id |-> s,
                   mission_id |-> step.mission_id,
                   step_type |-> step.step_type,
                   agent_name |-> agent_id], t)
    ELSE NewEvent("step.completed",
                  msns[step.mission_id].project_id, step.claimed_by_agent_id,
                  [step_id |-> s,
                   mission_id |-> step.mission_id,
                   step_type |-> step.step_type,
                   agent_id |-> step.claimed_by_agent_id,
                   simulated |-> TRUE], t)

\* _execute_step run without interruption.  Returns [steps, events].
execute_step(msns, stepRows, evts, s, agent_id, outcome, t) ==
    LET claimed == claim_row(stepRows[s], stepRows[s].claimed_by_agent_id,
                             agent_id)
        final == finish_row(start_row(claimed, t), outcome, t)
    IN  [steps |-> [stepRows EXCEPT ![s] = final],
         events |-> Append(evts, step_event(msns, final, s, agent_id,
                                            outcome, t))]

(***************************************************************************)
(* The tick: one action per phase of OrchestrationEngine._run_tick.        *)
(***************************************************************************)
\* Variant: the tick with mission materialization called before the approvals.
PhaseOrderMissionsFirst ==
    <<"sync", "triggers", "missions", "approvals", "steps", "completions",
      "escalate", "cleanup">>

\* The phases of _run_tick, in the order in which it calls them.
PhaseOrder ==
    <<"sync", "approvals", "triggers", "missions", "steps", "completions",
      "escalate", "cleanup">>

\* Where the tick stands once a phase has run: at the next phase, or done.
After(phase) ==
    LET k == CHOOSE j \in 1..Len(PhaseOrder) : PhaseOrder[j] = phase
    IN  IF k = Len(PhaseOrder) THEN "done" ELSE PhaseOrder[k + 1]

DefaultTitles == {default_steps(0)[k].title : k \in 1..4}

\* The steps that are not default steps: the ones triggers added.
AddedSteps(stepRows) ==
    {i \in Ids(stepRows) : stepRows[i].title \notin DefaultTitles}

TickSync(fetches) ==
    /\ pc = "idle"
    /\ \E fetch \in fetches, pick \in Picks :
          /\ proposals' = sync_mission_control(proposals, fetch, pick, now)
          /\ Len(proposals') <= MaxProposals
    /\ pc' = After("sync")
    /\ tick_start' = [proposals |-> proposals, missions |-> missions,
                      steps |-> steps, events |-> events, raised |-> {}]
    /\ errors' = <<>>
    /\ asked' = <<>>
    /\ tick_result' = NoResult
    /\ UNCHANGED <<missions, steps, events, triggers, now, work, streams, plugins>>

TickApprovals ==
    /\ pc = "approvals"
    /\ proposals' = process_pending_approvals(proposals, now)
    /\ pc' = After("approvals")
    /\ UNCHANGED <<missions, steps, events, triggers, now, tick_start, work, errors, asked, streams, tick_result,
                   plugins>>

TickTriggers ==
    /\ pc = "triggers"
    /\ LET db == evaluate_triggers([missions |-> missions, steps |-> steps,
                                    events |-> events, triggers |-> triggers,
                                    errors |-> <<>>, result |-> NoResult],
                                   now)
       IN  /\ Cardinality(AddedSteps(db.steps)) <= MaxTriggerSteps
           /\ Len(db.events) <= MaxEvents
           /\ missions' = db.missions
           /\ steps' = db.steps
           /\ events' = db.events
           /\ triggers' = db.triggers
           /\ errors' = errors \o db.errors
           /\ tick_result' = db.result
    /\ pc' = After("triggers")
    /\ UNCHANGED <<proposals, now, tick_start, work, asked, streams, plugins>>

TickMissions ==
    /\ pc = "missions"
    /\ missions' = create_missions_from_proposals(proposals, missions)
    /\ pc' = After("missions")
    /\ UNCHANGED <<proposals, steps, events, triggers, now, tick_start, work, errors, asked, streams, tick_result,
                   plugins>>

TickSteps ==
    /\ pc = "steps"
    /\ LET r == create_steps_from_missions(missions, steps)
       IN  /\ missions' = r.missions
           /\ steps' = r.steps
    /\ pc' = After("steps")
    /\ UNCHANGED <<proposals, events, triggers, now, tick_start, work, errors, asked, streams, tick_result,
                   plugins>>

TickCompletions ==
    /\ pc = "completions"
    /\ LET r == check_mission_completions(missions, steps, events, now)
       IN  /\ Len(r.events) <= MaxEvents
           /\ missions' = r.missions
           /\ events' = r.events
    /\ asked' = asked \o ReportsFrom(proposals, missions, steps, 1)
    /\ pc' = After("completions")
    /\ UNCHANGED <<proposals, steps, triggers, now, tick_start, work, errors,
                   streams, tick_result, plugins>>

TickEscalate ==
    /\ pc = "escalate"
    /\ \E answered \in SUBSET StuckMissions(proposals, missions, steps) :
          LET r == escalate_stuck_missions(proposals, missions, steps, events,
                                           asked, answered, now)
          IN  /\ events' = r.events
              /\ asked' = r.asked
              /\ Len(events') <= MaxEvents
    /\ pc' = After("escalate")
    /\ UNCHANGED <<proposals, missions, steps, triggers, now, tick_start,
                   work, errors, streams, tick_result, plugins>>

TickCleanup ==
    /\ pc = "cleanup"
    /\ LET r == cleanup_old_data(events, proposals, now)
       IN  /\ events' = r.events
           /\ proposals' = r.proposals
    /\ pc' = After("cleanup")
    /\ UNCHANGED <<missions, steps, triggers, now, tick_start, work, errors, asked, streams, tick_result,
                   plugins>>

\* _run_tick returns its result to the caller; the store is as the phases
\* left it.
TickReturn ==
    /\ pc = "done"
    /\ pc' = "idle"
    /\ tick_start' = NoTick
    /\ errors' = <<>>
    /\ asked' = <<>>
    /\ tick_result' = NoResult
    /\ UNCHANGED <<proposals, missions, steps, events, triggers, now, work, streams, plugins>>

\* What the except clause of a phase adds to the result when the phase's
\* first read of the store raises: _evaluate_triggers reports the failure,
\* the other phases log it.
PhaseErrors(phase) ==
    IF phase = "triggers" THEN <<TickError("triggers", None)>> ELSE <<>>

\* The sync phase raises: the tick begins and nothing is imported.
SyncRaises ==
    /\ pc = "idle"
    /\ pc' = After("sync")
    /\ tick_start' = [proposals |-> proposals, missions |-> missions,
                      steps |-> steps, events |-> events, raised |-> {"sync"}]
    /\ errors' = PhaseErrors("sync")
    /\ asked' = <<>>
    /\ tick_result' = NoResult
    /\ UNCHANGED <<proposals, missions, steps, events, triggers, now, work, streams, plugins>>

\* A later phase raises before it wrote anything: its except clause runs and
\* _run_tick goes on with the next phase.
PhaseRaises ==
    /\ pc \in {"approvals", "triggers", "missions", "steps", "completions",
               "escalate", "cleanup"}
    /\ pc' = After(pc)
    /\ tick_start' = [tick_start EXCEPT !.raised = @ \cup {pc}]
    /\ errors' = errors \o PhaseErrors(pc)
    /\ UNCHANGED <<proposals, missions, steps, events, triggers, now, work,
                   asked, streams, tick_result, plugins>>

Tick(fetches) ==
    \/ TickSync(fetches)
    \/ TickApprovals
    \/ TickTriggers
    \/ TickMissions
    \/ TickSteps
    \/ TickCompletions
    \/ TickEscalate
    \/ TickCleanup
    \/ TickReturn

(***************************************************************************)
(* The sync callbacks the task stream calls.                               *)
(***************************************************************************)
\* main.py startup_event._sync_board
SyncCallback ==
    /\ pc = "idle"
    /\ \E fetch \in Fetches, pick \in Picks :
          /\ proposals' = sync_mission_control(proposals, fetch, pick, now)
          /\ proposals' # proposals
          /\ Len(proposals') <= MaxProposals
    /\ UNCHANGED <<missions, steps, events, triggers, now, pc, tick_start, work, errors, asked, streams, tick_result,
                   plugins>>

\* plugins/mission-control on_startup._sync_board
PluginSyncCallback ==
    /\ pc = "idle"
    /\ \E fetch \in Fetches, pick \in Picks :
          /\ proposals' = on_tick_sync(proposals, fetch, pick, now)
          /\ proposals' # proposals
          /\ Len(proposals') <= MaxProposals
    /\ UNCHANGED <<missions, steps, events, triggers, now, pc, tick_start, work, errors, asked, streams, tick_result,
                   plugins>>

(***************************************************************************)
(* The stream ingestor.                                                    *)
(***************************************************************************)
Min(a, b) == IF a < b THEN a ELSE b

\* backoff = min(backoff * 2, 60.0), without the cap for the variant.
next_backoff_uncapped(backoff) == backoff * 2

next_backoff(backoff) == Min(backoff * 2, BackoffCap)

\* The event loop runs one callback at a time: while a handler's sync
\* callback runs, no consumer and no shutdown handler is resumed.
LoopFree == streams.sync.pc = "idle"

\* A consumer that the loop may resume inside _listen_sse: task.cancel()
\* makes the next resumption raise CancelledError.
Resumable(c) ==
    /\ LoopFree
    /\ ~streams.consumer[c].cancelled

\* start_all_board_streams, called by startup_event: start_board_streams for
\* every board of BOARD_PROJECT_MAP that has no entry in _active_streams.
StartAllBoardStreams ==
    /\ LoopFree
    /\ ~streams.stopped
    /\ DOMAIN BOARD_PROJECT_MAP \ streams.active # {}
    /\ streams' =
          [streams EXCEPT
              !.active = DOMAIN BOARD_PROJECT_MAP,
              !.consumer =
                  [c \in Consumers |->
                      IF c[1] \in streams.active THEN @[c]
                      ELSE [NoConsumer EXCEPT !.pc = "connect"]]]
    /\ UNCHANGED <<proposals, missions, steps, events, triggers, now, pc,
                   tick_start, work, errors, asked, tick_result, plugins>>

\* _listen_sse: client.stream and raise_for_status succeed.
Connect(cs) ==
    /\ \E c \in cs :
          /\ Resumable(c)
          /\ streams.consumer[c].pc = "connect"
          /\ streams' = [streams EXCEPT
                            !.consumer[c].pc = "open",
                            !.consumer[c].backoff = InitialBackoff,
                            !.consumer[c].failures = 0,
                            !.consumer[c].event_type = <<>>,
                            !.consumer[c].data_lines = <<>>,
                            !.consumer[c].read = <<>>,
                            !.consumer[c].dispatched = <<>>]
    /\ UNCHANGED <<proposals, missions, steps, events, triggers, now, pc,
                   tick_start, work, errors, asked, tick_result, plugins>>

\* Variant: an exception that no except clause names ends the consumer.
DisconnectFatal(cs, limit) ==
    /\ \E c \in cs :
          /\ Resumable(c)
          /\ streams.consumer[c].pc \in {"connect", "open"}
          /\ streams.consumer[c].failures < limit
          /\ \E next \in {"sleep", "done"} :
                streams' = [streams EXCEPT !.consumer[c].pc = next]
    /\ UNCHANGED <<proposals, missions, steps, events, triggers, now, pc,
                   tick_start, work, errors, asked, tick_result, plugins>>

\* _listen_sse: the connect raises HTTPStatusError, a transport error or any
\* other exception, or the open stream ends or is lost; the except clauses
\* and the end of the loop over the lines fall through to the sleep.
Disconnect(cs, limit) ==
    /\ \E c \in cs :
          /\ Resumable(c)
          /\ streams.consumer[c].pc \in {"connect", "open"}
          /\ streams.consumer[c].failures < limit
          /\ streams' = [streams EXCEPT !.consumer[c].pc = "sleep"]
    /\ UNCHANGED <<proposals, missions, steps, events, triggers, now, pc,
                   tick_start, work, errors, asked, tick_result, plugins>>

\* _listen_sse: await asyncio.sleep(backoff) returns and the delay doubles.
Sleep(cs) ==
    /\ \E c \in cs :
          /\ Resumable(c)
          /\ streams.consumer[c].pc = "sleep"
          /\ streams' = [streams EXCEPT
                            !.consumer[c].pc = "connect",
                            !.consumer[c].slept = streams.consumer[c].backoff,
                            !.consumer[c].backoff = next_backoff(@),
                            !.consumer[c].failures = @ + 1]
    /\ UNCHANGED <<proposals, missions, steps, events, triggers, now, pc,
                   tick_start, work, errors, asked, tick_result, plugins>>

\* Text is a sequence of characters.  The lines a board sends on its
\* approvals stream: event lines with and without a space after the colon,
\* data lines whose text is a JSON object or a JSON number, the blank line
\* and a comment line.
StreamLines ==
    {<<"e", "v", "e", "n", "t", ":", " ", "a">>,
     <<"e", "v", "e", "n", "t", ":", "b">>,
     <<"d", "a", "t", "a", ":", " ", "{", "}">>,
     <<"d", "a", "t", "a", ":", "1">>,
     <<>>,
     <<":", "k">>}

EventPrefix == <<"e", "v", "e", "n", "t", ":">>
DataPrefix == <<"d", "a", "t", "a", ":">>
MessageType == <<"m", "e", "s", "s", "a", "g", "e">>

\* str.startswith
StartsWith(line, prefix) ==
    /\ Len(line) >= Len(prefix)
    /\ SubSeq(line, 1, Len(prefix)) = prefix

\* line[n:].strip()
RECURSIVE Strip(_)
Strip(text) ==
    IF text = <<>> THEN text
    ELSE IF Head(text) = " " THEN Strip(Tail(text))
    ELSE IF text[Len(text)] = " " THEN Strip(SubSeq(text, 1, Len(text) - 1))
    ELSE text

TextAfter(line, prefix) == Strip(SubSeq(line, Len(prefix) + 1, Len(line)))

\* "\n".join(data_lines)
RECURSIVE JoinLines(_)
JoinLines(data_lines) ==
    IF Len(data_lines) <= 1
    THEN (IF data_lines = <<>> THEN <<>> ELSE data_lines[1])
    ELSE data_lines[1] \o <<"\n">> \o JoinLines(Tail(data_lines))

\* json.loads(raw), with {"raw": raw} for a text that is not JSON.
Payload(raw) ==
    IF raw = <<"{", "}">> THEN [json |-> "object", raw |-> <<>>]
    ELSE IF raw = <<"1">> THEN [json |-> "number", raw |-> <<>>]
    ELSE [json |-> "object", raw |-> raw]

\* _handle_approval_event: payload.keys() raises for a payload that is not
\* an object.
handle_approval_event(event_type, payload) ==
    IF payload.json = "object" THEN "logged" ELSE "raised"

\* on_event(event_type or "message", payload) inside its try: the call and
\* what became of it.
Dispatch(event_type, data_lines) ==
    LET type == IF event_type = <<>> THEN MessageType ELSE event_type
        payload == Payload(JoinLines(data_lines))
    IN  [event_type |-> type, data |-> data_lines,
         handled |-> handle_approval_event(type, payload)]

\* Variant: the read loop keeping the event type after a frame.
read_line_keeping_type(cn, line) ==
    IF StartsWith(line, EventPrefix)
    THEN [cn EXCEPT !.event_type = TextAfter(line, EventPrefix)]
    ELSE IF StartsWith(line, DataPrefix)
    THEN [cn EXCEPT !.data_lines = Append(@, TextAfter(line, DataPrefix))]
    ELSE IF line = <<>>
    THEN [cn EXCEPT
            !.dispatched = IF cn.data_lines # <<>>
                           THEN Append(@, Dispatch(cn.event_type,
                                                   cn.data_lines))
                           ELSE @,
            !.data_lines = <<>>]
    ELSE cn

\* One turn of the loop over response.aiter_lines().
read_line(cn, line) ==
    IF StartsWith(line, EventPrefix)
    THEN [cn EXCEPT !.event_type = TextAfter(line, EventPrefix)]
    ELSE IF StartsWith(line, DataPrefix)
    THEN [cn EXCEPT !.data_lines = Append(@, TextAfter(line, DataPrefix))]
    ELSE IF line = <<>>
    THEN [cn EXCEPT
            !.dispatched = IF cn.data_lines # <<>>
                           THEN Append(@, Dispatch(cn.event_type,
                                                   cn.data_lines))
                           ELSE @,
            !.event_type = <<>>,
            !.data_lines = <<>>]
    ELSE cn

\* _listen_sse takes the next line of the approvals stream of a board.
ReadLine(cs, lines, limit) ==
    /\ \E c \in cs, line \in lines :
          /\ c[2] = "approvals"
          /\ Resumable(c)
          /\ streams.consumer[c].pc = "open"
          /\ Len(streams.consumer[c].read) < limit
          /\ streams' =
                [streams EXCEPT
                    !.consumer[c] =
                        [read_line(@, line) EXCEPT !.read = Append(@, line)]]
    /\ UNCHANGED <<proposals, missions, steps, events, triggers, now, pc,
                   tick_start, work, errors, asked, tick_result, plugins>>

\* The frames a board sends: an event type and the status of the payload.
Frames ==
    {[event_type |-> "task.created", status |-> "inbox"],
     [event_type |-> "task.updated", status |-> "done"],
     [event_type |-> "task.comment", status |-> "inbox"]}

\* _handle_task_event: the frames that request a sync.
RequestsSync(c, frame) ==
    /\ c[2] = "tasks"
    /\ frame.event_type \in {"task.created", "task.updated"}
    /\ frame.status \in {"inbox", "in_progress"}

\* The rows a sync adds to the proposals it read.
SyncRows(props, fetch, pick, t) ==
    LET after == sync_mission_control(props, fetch, pick, t)
    IN  SubSeq(after, Len(props) + 1, Len(after))

\* _listen_sse gives one frame to on_event.  A task frame that requests a
\* sync calls _sync_board, which opens a session and reads the boards and the
\* proposals; the rows it adds are committed in StreamSyncCommit.
Frame(cs, fetches, limit) ==
    /\ \E c \in cs, frame \in Frames :
          /\ Resumable(c)
          /\ streams.consumer[c].pc = "open"
          /\ streams.consumer[c].frames < limit
          /\ IF RequestsSync(c, frame)
             THEN \E fetch \in fetches, pick \in Picks :
                     streams' =
                        [streams EXCEPT
                            !.consumer[c].frames = @ + 1,
                            !.sync = [pc |-> "commit",
                                      rows |-> SyncRows(proposals, fetch,
                                                        pick, now)]]
             ELSE streams' = [streams EXCEPT !.consumer[c].frames = @ + 1]
    /\ UNCHANGED <<proposals, missions, steps, events, triggers, now, pc,
                   tick_start, work, errors, asked, tick_result, plugins>>

\* _sync_mission_control called by _sync_board: session.commit().
StreamSyncCommit ==
    /\ streams.sync.pc = "commit"
    /\ Len(proposals) + Len(streams.sync.rows) <= MaxProposals
    /\ proposals' = proposals \o streams.sync.rows
    /\ streams' = [streams EXCEPT !.sync = NoSync]
    /\ UNCHANGED <<missions, steps, events, triggers, now, pc, tick_start,
                   work, errors, asked, tick_result, plugins>>

\* A cancelled consumer is resumed: CancelledError ends _listen_sse.
Cancelled ==
    /\ LoopFree
    /\ \E c \in Consumers :
          /\ streams.consumer[c].cancelled
          /\ streams.consumer[c].pc \in {"connect", "open", "sleep"}
          /\ streams' = [streams EXCEPT !.consumer[c].pc = "done"]
    /\ UNCHANGED <<proposals, missions, steps, events, triggers, now, pc,
                   tick_start, work, errors, asked, tick_result, plugins>>

\* stop_all_streams, called by shutdown_event: task.cancel() for every
\* entry of _active_streams, then _active_streams.clear().
stop_all_streams(st) ==
    [st EXCEPT
        !.consumer = [c \in Consumers |->
                         IF c[1] \in st.active
                         THEN [@[c] EXCEPT !.cancelled = TRUE]
                         ELSE @[c]],
        !.active = {},
        !.stopped = TRUE]

StopAllStreams ==
    /\ LoopFree
    /\ ~streams.stopped
    /\ streams' = stop_all_streams(streams)
    /\ UNCHANGED <<proposals, missions, steps, events, triggers, now, pc,
                   tick_start, work, errors, asked, tick_result, plugins>>

(***************************************************************************)
(* Work cycles and the clock.                                              *)
(***************************************************************************)
\* OrchestrationEngine.work_cycle for one of the agents of agent_ids, run
\* without interruption.
WorkCycleOf(agent_ids, outcomes) ==
    /\ pc = "idle"
    /\ Len(events) < MaxEvents
    /\ \E agent_id \in agent_ids, outcome \in outcomes :
          LET available == find_available_steps(agent_id, missions, steps)
          IN  /\ available # {}
              /\ LET r == execute_step(missions, steps, events,
                                       FirstStep(steps, available),
                                       agent_id, outcome, now)
                 IN  /\ steps' = r.steps
                     /\ events' = r.events
    /\ UNCHANGED <<proposals, missions, triggers, now, pc, tick_start, work, errors, asked, streams, tick_result,
                   plugins>>

WorkCycle(outcomes) == WorkCycleOf(DOMAIN Agents, outcomes)

\* A work cycle commit by commit.  work[a] holds where agent a's cycle
\* stands, the step it took from the selection, the claimant it read with the
\* step, and what the dispatch came to.
Working == {a \in DOMAIN Agents : work[a].pc # "idle"}

\* find_and_execute_work up to available_steps[0].  With exclusive, cycles
\* run one after the other; without, the agents of agent_ids run side by
\* side.  At most cycles work cycles are followed.
WorkSelect(agent_ids, exclusive, cycles) ==
    /\ pc = "idle"
    /\ Len(events) + Cardinality(Working) < MaxEvents
    /\ Cardinality({s \in Ids(steps) : steps[s].completed_at # NoTime})
          + Cardinality(Working) < cycles
    /\ exclusive => Working = {}
    /\ \E agent_id \in agent_ids :
          LET available == find_available_steps(agent_id, missions, steps)
          IN  /\ work[agent_id].pc = "idle"
              /\ available # {}
              /\ LET s == FirstStep(steps, available)
                 IN  work' = [work EXCEPT ![agent_id] =
                                [pc |-> "claim", step |-> s,
                                 claimed_by |-> steps[s].claimed_by_agent_id,
                                 result |-> None]]
    /\ UNCHANGED <<proposals, missions, steps, events, triggers, now, pc,
                   tick_start, errors, asked, streams, tick_result, plugins>>

\* _execute_step: the claim and its commit.
WorkClaim ==
    /\ pc = "idle"
    /\ \E agent_id \in Working :
          /\ work[agent_id].pc = "claim"
          /\ steps' = [steps EXCEPT ![work[agent_id].step] =
                          claim_row(@, work[agent_id].claimed_by, agent_id)]
          /\ work' = [work EXCEPT ![agent_id].pc = "start"]
    /\ UNCHANGED <<proposals, missions, events, triggers, now, pc, tick_start,
                   errors, asked, streams, tick_result, plugins>>

\* _execute_step: the start and its commit.
WorkStart ==
    /\ pc = "idle"
    /\ \E agent_id \in Working :
          /\ work[agent_id].pc = "start"
          /\ steps' = [steps EXCEPT ![work[agent_id].step] = start_row(@, now)]
          /\ work' = [work EXCEPT ![agent_id].pc = "dispatch"]
    /\ UNCHANGED <<proposals, missions, events, triggers, now, pc, tick_start,
                   errors, asked, streams, tick_result, plugins>>

\* _dispatch_to_gateway: the call of the gateway, which blocks until the
\* agent answered or the call failed.
WorkDispatch(outcomes) ==
    /\ pc = "idle"
    /\ \E agent_id \in Working, outcome \in outcomes :
          /\ work[agent_id].pc = "dispatch"
          /\ work' = [work EXCEPT ![agent_id].pc = "finish",
                                  ![agent_id].result = outcome]
    /\ UNCHANGED <<proposals, missions, steps, events, triggers, now, pc,
                   tick_start, errors, asked, streams, tick_result, plugins>>

\* The writes of _execute_step's except clause.
fail_row(step, error, t) ==
    [step EXCEPT !.status = "failed", !.error = error, !.completed_at = t]

\* _execute_step: _generate_work_prompt raises (a work_prompt template of
\* the agent's configuration that str.format rejects with ValueError); the
\* except clause fails the step and the cycle returns.
WorkRaise ==
    /\ pc = "idle"
    /\ \E agent_id \in Working :
          /\ work[agent_id].pc = "dispatch"
          /\ steps' = [steps EXCEPT ![work[agent_id].step] =
                          fail_row(@, "ValueError", now)]
          /\ work' = [work EXCEPT ![agent_id] = NoWork]
    /\ UNCHANGED <<proposals, missions, events, triggers, now, pc, tick_start,
                   errors, asked, streams, tick_result, plugins>>

\* _execute_step from the gateway's answer on: the final writes, the event
\* and their commit.
WorkFinish ==
    /\ pc = "idle"
    /\ \E agent_id \in Working :
          LET s == work[agent_id].step
              final == finish_row(steps[s], work[agent_id].result, now)
          IN  /\ work[agent_id].pc = "finish"
              /\ steps' = [steps EXCEPT ![s] = final]
              /\ events' = Append(events,
                                  step_event(missions, final, s, agent_id,
                                             work[agent_id].result, now))
              /\ work' = [work EXCEPT ![agent_id] = NoWork]
    /\ UNCHANGED <<proposals, missions, triggers, now, pc, tick_start, errors,
                   asked, streams, tick_result, plugins>>

AdvanceTime(instants) ==
    /\ pc = "idle"
    /\ \E t \in instants : t > now /\ now' = t
    /\ UNCHANGED <<proposals, missions, steps, events, triggers, pc, tick_start, work, errors, asked, streams, tick_result,
                   plugins>>

(***************************************************************************)
(* REST handlers.                                                          *)
(***************************************************************************)
TitleDocs == <<"D", "O", "C", "S">>

\* Request bodies of POST /api/v1/proposals.
ProposalInputs ==
    {[agent_id |-> "a1", project_id |-> "p1", title |-> TitleFix,
      priority |-> "medium", auto_approve |-> FALSE],
     [agent_id |-> "a2", project_id |-> "p1", title |-> TitleDocs,
      priority |-> "low", auto_approve |-> TRUE]}

\* An approved proposal, ready to become a mission.
WorkInputs ==
    {[agent_id |-> "a2", project_id |-> "p1", title |-> TitleDocs,
      priority |-> "low", auto_approve |-> TRUE]}

TitlePatch == <<"P", "A", "T", "C", "H">>
TitleHotfix == <<"h", "o", "t", "F", "i", "x">>
TitleTypo == <<"a", " ", "T", "y", "p", "o">>
TitleDocumentation ==
    <<"D", "o", "c", "u", "m", "e", "n", "t", "a", "t", "i", "o", "n">>
TitleReadme == <<"R", "E", "A", "D", "M", "E", ".", "m", "d">>
TitleTest == <<"T", "e", "s", "t">>
TitleSpec == <<"S", "p", "e", "c", "s">>
TitleTesting == <<"T", "e", "s", "t", "i", "n", "g">>
TitleDoc == <<"D", "o", "c">>

ReviewTitles ==
    {TitleFix, TitlePatch, TitleHotfix, TitleTypo, TitleDocs,
     TitleDocumentation, TitleReadme, TitleTest, TitleSpec, TitleTesting,
     TitleAdd, TitleDoc}

Priorities == {"critical", "high", "medium", "low"}

ReviewInputs ==
    {[agent_id |-> a, project_id |-> "p1", title |-> title, priority |-> p,
      auto_approve |-> FALSE] :
        a \in {"a1", "a2"}, title \in ReviewTitles, p \in Priorities}

\* The rationale every request body carries: a text is the sequence of its
\* parts.
BodyRationale == <<"Requested by the team">>

create_proposal(data, t) ==
    [agent_id |-> data.agent_id,
     project_id |-> data.project_id,
     title |-> data.title,
     rationale |-> BodyRationale,
     priority |-> data.priority,
     status |-> IF data.auto_approve THEN "approved" ELSE "pending",
     auto_approve |-> data.auto_approve,
     reviewed_by |-> IF data.auto_approve THEN "system" ELSE None,
     reviewed_at |-> IF data.auto_approve THEN t ELSE NoTime,
     created_at |-> t,
     mc_task_id |-> None,
     mc_board_id |-> None]

CreateProposal(inputs, limit) ==
    /\ pc = "idle"
    /\ Len(proposals) < limit
    /\ \E data \in inputs :
          proposals' = Append(proposals, create_proposal(data, now))
    /\ UNCHANGED <<missions, steps, events, triggers, now, pc, tick_start, work, errors, asked, streams, tick_result,
                   plugins>>

\* PATCH /api/v1/proposals/{id} with {auto_approve}: status is never taken
\* from the body.
update_proposal(proposal, auto_approve) ==
    [proposal EXCEPT !.auto_approve = auto_approve]

UpdateProposal(flags) ==
    /\ pc = "idle"
    /\ \E i \in Ids(proposals), auto_approve \in flags :
          /\ proposals[i].auto_approve # auto_approve
          /\ proposals' = [proposals EXCEPT
                              ![i] = update_proposal(@, auto_approve)]
    /\ UNCHANGED <<missions, steps, events, triggers, now, pc, tick_start, work, errors, asked, streams, tick_result,
                   plugins>>

\* Request bodies of POST /api/v1/proposals/{id}/approve.
ReviewBodies ==
    {[status |-> st, reviewed_by |-> "alice", review_notes |-> "not now"] :
        st \in {"approved", "rejected", "pending"}}

\* Variant: the handler without its test of the current status.
review_proposal_any(proposal, body, t) ==
    IF body.status \notin {"approved", "rejected"} THEN proposal
    ELSE [proposal EXCEPT !.status = body.status,
                          !.reviewed_by = body.reviewed_by,
                          !.reviewed_at = t]

\* POST /api/v1/proposals/{id}/approve: 409 unless the proposal is DRAFT or
\* PENDING, 400 unless the body asks for APPROVED or REJECTED.  review_notes
\* is not read.
review_proposal(proposal, body, t) ==
    IF proposal.status \notin {"draft", "pending"} THEN proposal
    ELSE IF body.status \notin {"approved", "rejected"} THEN proposal
    ELSE [proposal EXCEPT !.status = body.status,
                          !.reviewed_by = body.reviewed_by,
                          !.reviewed_at = t]

ReviewProposal(bodies) ==
    /\ pc = "idle"
    /\ \E i \in Ids(proposals), body \in bodies :
          /\ proposals' = [proposals EXCEPT
                              ![i] = review_proposal(@, body, now)]
          /\ proposals' # proposals
    /\ UNCHANGED <<missions, steps, events, triggers, now, pc, tick_start,
                   work, errors, asked, streams, tick_result, plugins>>

\* ApprovalEngine.approve_proposal
approve_proposal(proposal, reviewed_by, t) ==
    IF proposal.status # "pending" THEN proposal
    ELSE [proposal EXCEPT !.status = "approved",
                          !.reviewed_by = reviewed_by,
                          !.reviewed_at = t]

\* The line reject_proposal appends to the rationale.
RejectionLine(rejection_reason) == <<"\n\nREJECTED: ", rejection_reason>>

\* ApprovalEngine.reject_proposal
reject_proposal(proposal, reviewed_by, rejection_reason, t) ==
    IF proposal.status # "pending" THEN proposal
    ELSE [proposal EXCEPT !.status = "rejected",
                          !.reviewed_by = reviewed_by,
                          !.reviewed_at = t,
                          !.rationale = @ \o RejectionLine(rejection_reason)]

Reviewers == {"bob"}
RejectionReasons == {"out of scope"}

ApproveProposal ==
    /\ pc = "idle"
    /\ \E i \in Ids(proposals), reviewed_by \in Reviewers :
          /\ proposals' = [proposals EXCEPT
                              ![i] = approve_proposal(@, reviewed_by, now)]
          /\ proposals' # proposals
    /\ UNCHANGED <<missions, steps, events, triggers, now, pc, tick_start,
                   work, errors, asked, streams, tick_result, plugins>>

RejectProposal ==
    /\ pc = "idle"
    /\ \E i \in Ids(proposals), reviewed_by \in Reviewers,
          rejection_reason \in RejectionReasons :
          /\ proposals' = [proposals EXCEPT
                              ![i] = reject_proposal(@, reviewed_by,
                                                     rejection_reason, now)]
          /\ proposals' # proposals
    /\ UNCHANGED <<missions, steps, events, triggers, now, pc, tick_start,
                   work, errors, asked, streams, tick_result, plugins>>

\* Request bodies of POST /api/v1/triggers.
WorkTriggers ==
    {[project_id |-> "p1", name |-> "deploy_on_mission_complete",
      event_pattern |-> [event_type |-> "mission.completed"],
      action |-> [type |-> "create_step", title |-> "Auto-deploy",
                  step_type |-> "deploy", order_index |-> 99],
      enabled |-> TRUE],
     [project_id |-> "p1", name |-> "mission_complete_check",
      event_pattern |-> [event_type |-> "step.completed"],
      action |-> [type |-> "evaluate_mission_completion"],
      enabled |-> TRUE]}

KickoffTriggers ==
    {[project_id |-> "p1", name |-> "kickoff",
      event_pattern |-> [event_type |-> "mission.created"],
      action |-> [type |-> "create_step"],
      enabled |-> TRUE]}

create_trigger(data) ==
    [project_id |-> data.project_id,
     name |-> data.name,
     event_pattern |-> data.event_pattern,
     action |-> data.action,
     enabled |-> data.enabled,
     last_fired_at |-> NoTime]

CreateTriggers(inputs, limit) ==
    /\ pc = "idle"
    /\ Len(triggers) < limit
    /\ \E data \in inputs :
          /\ ~\E k \in Ids(triggers) :
                  /\ triggers[k].project_id = data.project_id
                  /\ triggers[k].name = data.name
          /\ triggers' = Append(triggers, create_trigger(data))
    /\ UNCHANGED <<proposals, missions, steps, events, now, pc, tick_start, work, errors, asked, streams, tick_result,
                   plugins>>

CreateTrigger(inputs) == CreateTriggers(inputs, MaxTriggers)

\* A trigger whose action type _execute_trigger_action does not know.
BrokenTriggers ==
    {[project_id |-> "p1", name |-> "notify",
      event_pattern |-> [event_type |-> "test.event"],
      action |-> [type |-> "send_notification"],
      enabled |-> TRUE]}

\* Request bodies of POST /api/v1/events.
PlainEvents ==
    {[event_type |-> "test.event", project_id |-> "p1",
      source_agent_id |-> None, payload |-> [key |-> "value"]]}

\* Patterns of POST /api/v1/triggers: event_pattern is any JSON object
\* (schemas.TriggerBase), with or without event_type and conditions.
MatchPatterns ==
    [typed |-> [event_type |-> "test.event"],
     one_key |-> [event_type |-> "test.event",
                  conditions |-> [key |-> "value"]],
     two_keys |-> [event_type |-> "test.event",
                   conditions |-> [key |-> "value", env |-> "prod"]],
     untyped |-> [conditions |-> [key |-> "value"]]]

\* Triggers whose action the engine does not know: the engine reports every
\* one of them that matched an event, by name.
MatchTriggers ==
    {[project_id |-> "p1", name |-> n,
      event_pattern |-> MatchPatterns[n],
      action |-> [type |-> "send_notification"],
      enabled |-> TRUE] : n \in DOMAIN MatchPatterns}

\* Events of both projects and of two types, whose payload has the
\* condition key with the value asked, with another value, or not at all.
MatchEvents ==
    {[event_type |-> ty, project_id |-> pr, source_agent_id |-> None,
      payload |-> pl] :
        ty \in {"test.event", "other.event"},
        pr \in DOMAIN Projects,
        pl \in {[key |-> "value"], [key |-> "other"], [env |-> "prod"],
                 [key |-> "value", env |-> "prod"]}}

\* Triggers on mission.created: two that create a step (one with every
\* field of the action, one with none), one whose action type the engine
\* does not know, and one that is disabled.
FanoutTriggers ==
    {[project_id |-> "p1", name |-> "deploy",
      event_pattern |-> [event_type |-> "mission.created"],
      action |-> [type |-> "create_step", title |-> "Auto-deploy",
                  description |-> "Deploy the mission",
                  step_type |-> "deploy", order_index |-> 99],
      enabled |-> TRUE],
     [project_id |-> "p1", name |-> "kickoff",
      event_pattern |-> [event_type |-> "mission.created"],
      action |-> [type |-> "create_step"],
      enabled |-> TRUE],
     [project_id |-> "p1", name |-> "notify",
      event_pattern |-> [event_type |-> "mission.created"],
      action |-> [type |-> "send_notification"],
      enabled |-> TRUE],
     [project_id |-> "p1", name |-> "off",
      event_pattern |-> [event_type |-> "mission.created"],
      action |-> [type |-> "create_step", title |-> "Never"],
      enabled |-> FALSE]}

\* Events that announce a mission of the store.
MissionEvents ==
    {[event_type |-> "mission.created", project_id |-> missions[m].project_id,
      source_agent_id |-> None, payload |-> [mission_id |-> m]] :
        m \in Ids(missions)}

\* mission.created events of project p1: for a mission of the store, and
\* with a payload that names no mission.
FanoutEvents ==
    MissionEvents \cup
    {[event_type |-> "mission.created", project_id |-> "p1",
      source_agent_id |-> None, payload |-> [key |-> "value"]]}

PostedTypes == {"test.event", "other.event", "mission.created"}

CreateEvent(inputs) ==
    /\ pc = "idle"
    /\ Len(events) < MaxEvents
    /\ Cardinality({i \in Ids(events) :
                      events[i].event_type \in PostedTypes}) < MaxPostedEvents
    /\ \E data \in inputs :
          events' = Append(events,
                           NewEvent(data.event_type, data.project_id,
                                    data.source_agent_id, data.payload, now))
    /\ UNCHANGED <<proposals, missions, steps, triggers, now, pc, tick_start, work, errors, asked, streams, tick_result,
                   plugins>>

\* Request bodies of POST /api/v1/missions: a mission for a proposal of the
\* store.
MissionInputs(props) ==
    {[proposal_id |-> i, project_id |-> props[i].project_id,
      assigned_agent_id |-> None] : i \in Ids(props)}

create_mission(data) ==
    [proposal_id |-> data.proposal_id,
     project_id |-> data.project_id,
     status |-> "planned",
     assigned_agent_id |-> data.assigned_agent_id,
     completed_at |-> NoTime]

CreateMission(limit) ==
    /\ pc = "idle"
    /\ Len(missions) < limit
    /\ \E data \in MissionInputs(proposals) :
          missions' = Append(missions, create_mission(data))
    /\ UNCHANGED <<proposals, steps, events, triggers, now, pc, tick_start, work, errors, asked, streams, tick_result,
                   plugins>>

StepStatuses ==
    {"pending", "claimed", "running", "completed", "failed", "skipped"}

\* PATCH /api/v1/missions/{id} with {status}
update_mission(mission, new_status, t) ==
    [mission EXCEPT
        !.completed_at =
            IF new_status = "completed" /\ mission.status # "completed" THEN t
            ELSE IF new_status # "completed" THEN NoTime
            ELSE @,
        !.status = new_status]

UpdateMission(statuses) ==
    /\ pc = "idle"
    /\ \E m \in Ids(missions), new_status \in statuses :
          /\ missions[m].status # new_status
          /\ missions' = [missions EXCEPT
                             ![m] = update_mission(@, new_status, now)]
    /\ UNCHANGED <<proposals, steps, events, triggers, now, pc, tick_start, work, errors, asked, streams, tick_result,
                   plugins>>

\* PATCH /api/v1/steps/{id} with {status}: any status is taken; the first
\* move to RUNNING stamps started_at, a move into COMPLETED or FAILED from
\* another status stamps completed_at.
update_step(step, new_status, t) ==
    LET stamped ==
            IF new_status = "running" /\ step.status # "running"
            THEN [step EXCEPT !.started_at = t]
            ELSE IF /\ new_status \in {"completed", "failed"}
                    /\ step.status \notin {"completed", "failed"}
            THEN [step EXCEPT !.completed_at = t]
            ELSE step
    IN  [stamped EXCEPT !.status = new_status]

\* The handler called for a step whose status is one of from_statuses.
UpdateStep(from_statuses, statuses) ==
    /\ pc = "idle"
    /\ \E s \in Ids(steps), new_status \in statuses :
          /\ steps[s].status \in from_statuses
          /\ steps[s].status # new_status
          /\ steps' = [steps EXCEPT ![s] = update_step(@, new_status, now)]
    /\ UNCHANGED <<proposals, missions, events, triggers, now, pc, tick_start, work, errors, asked, streams, tick_result,
                   plugins>>

\* POST /api/v1/steps/{id}/claim: 409 unless the step is PENDING and not
\* claimed by another agent.  The handler commits the claim; the event it
\* goes on to build is never stored, since session.get is called without an
\* entity and raises.
claim_step(step, agent_id) ==
    IF step.status # "pending" THEN step
    ELSE IF step.claimed_by_agent_id \notin {None, agent_id} THEN step
    ELSE [step EXCEPT !.claimed_by_agent_id = agent_id, !.status = "claimed"]

\* POST /api/v1/steps/{id}/start: 409 unless the step is CLAIMED.
start_step(step, t) ==
    IF step.status # "claimed" THEN step
    ELSE [step EXCEPT !.status = "running", !.started_at = t]

\* POST /api/v1/steps/{id}/complete: 409 unless the step is CLAIMED or
\* RUNNING.
complete_step(step, output, t) ==
    IF step.status \notin {"claimed", "running"} THEN step
    ELSE [step EXCEPT !.status = "completed", !.output = output,
                      !.completed_at = t, !.error = None]

\* POST /api/v1/steps/{id}/fail: 409 unless the step is CLAIMED or RUNNING.
fail_step(step, error, t) ==
    IF step.status \notin {"claimed", "running"} THEN step
    ELSE [step EXCEPT !.status = "failed", !.error = error,
                      !.completed_at = t]

\* What the caller of a step handler receives.  A rejected call gets 409.
\* claim_step, complete_step and fail_step commit and then build an event
\* with session.get called without an entity, which raises: the caller gets
\* the server error of an unhandled exception.  start_step returns the row.
claim_step_response(step, agent_id) ==
    IF step.status # "pending" THEN "conflict"
    ELSE IF step.claimed_by_agent_id \notin {None, agent_id} THEN "conflict"
    ELSE "server_error"

start_step_response(step) ==
    IF step.status # "claimed" THEN "conflict" ELSE "ok"

complete_step_response(step) ==
    IF step.status \notin {"claimed", "running"} THEN "conflict"
    ELSE "server_error"

fail_step_response(step) ==
    IF step.status \notin {"claimed", "running"} THEN "conflict"
    ELSE "server_error"

\* The agents that call the step handlers.
Claimants == {"a2"}

\* The callers take the steps of a mission in order: the steps whose
\* predecessors in the mission have all reached a terminal status.
NextInLine(stepRows) ==
    {s \in Ids(stepRows) :
        \A r \in StepsOf(stepRows, stepRows[s].mission_id) :
            (r # s /\ StepOrder(stepRows, r, s)) =>
                stepRows[r].status \in {"completed", "failed", "skipped"}}

ClaimStep ==
    /\ pc = "idle"
    /\ \E s \in NextInLine(steps), agent_id \in Claimants :
          /\ steps' = [steps EXCEPT ![s] = claim_step(@, agent_id)]
          /\ steps' # steps
    /\ UNCHANGED <<proposals, missions, events, triggers, now, pc, tick_start,
                   work, errors, asked, streams, tick_result, plugins>>

StartStep ==
    /\ pc = "idle"
    /\ \E s \in NextInLine(steps) :
          /\ steps' = [steps EXCEPT ![s] = start_step(@, now)]
          /\ steps' # steps
    /\ UNCHANGED <<proposals, missions, events, triggers, now, pc, tick_start,
                   work, errors, asked, streams, tick_result, plugins>>

CompleteStep ==
    /\ pc = "idle"
    /\ \E s \in NextInLine(steps) :
          /\ steps' = [steps EXCEPT ![s] = complete_step(@, "done by hand", now)]
          /\ steps' # steps
    /\ UNCHANGED <<proposals, missions, events, triggers, now, pc, tick_start,
                   work, errors, asked, streams, tick_result, plugins>>

FailStep ==
    /\ pc = "idle"
    /\ \E s \in NextInLine(steps) :
          /\ steps' = [steps EXCEPT ![s] = fail_step(@, "gave up", now)]
          /\ steps' # steps
    /\ UNCHANGED <<proposals, missions, events, triggers, now, pc, tick_start,
                   work, errors, asked, streams, tick_result, plugins>>

(***************************************************************************)
(* Specifications.                                                         *)
(***************************************************************************)
\* The store and the tick, with proposals and events posted over REST and
\* time passing; the boards return nothing.
Next ==
    \/ Tick(QuietFetches)
    \/ CreateProposal(ProposalInputs, MaxProposals)
    \/ UpdateProposal({TRUE})
    \/ CreateEvent(PlainEvents)
    \/ AdvanceTime(RetentionInstants)

Spec == Init /\ [][Next]_vars

\* Proposals of every title, priority and agent under review.
NextApproval ==
    \/ Tick(QuietFetches)
    \/ CreateProposal(ReviewInputs, MaxReviewedProposals)
    \/ UpdateProposal(BOOLEAN)
    \/ AdvanceTime(ExpiryInstants)

SpecApproval == Init /\ [][NextApproval]_vars

\* The boards answer: the tick's sync phase and the two stream callbacks.
NextSync ==
    \/ Tick(Fetches)
    \/ SyncCallback
    \/ PluginSyncCallback
    \/ AdvanceTime(ExpiryInstants)

SpecSync == Init /\ [][NextSync]_vars

\* The gateway answers or is not installed.
AnsweredOutcomes == {"ok", "error", "unavailable"}

\* Agents work on the steps of a mission and triggers react to the events.
NextWork ==
    \/ Tick(QuietFetches)
    \/ CreateProposal(WorkInputs, MaxWorkedProposals)
    \/ CreateTrigger(WorkTriggers)
    \/ WorkCycle(AnsweredOutcomes)
    \/ AdvanceTime(WindowInstants)

SpecWork == Init /\ [][NextWork]_vars

\* Missions, triggers and events are posted over REST.
NextApi ==
    \/ Tick(QuietFetches)
    \/ CreateProposal(ProposalInputs, MaxProposals)
    \/ CreateMission(MaxProposals + MaxPostedMissions)
    \/ CreateTrigger(KickoffTriggers)
    \/ CreateEvent(MissionEvents)

SpecApi == Init /\ [][NextApi]_vars

\* The steps of one mission are moved from PENDING to every status over REST.
NextClosure ==
    \/ Tick(QuietFetches)
    \/ CreateProposal(WorkInputs, MaxWorkedProposals)
    \/ CreateMission(MaxPostedMissions)
    \/ UpdateMission({"active"})
    \/ UpdateStep({"pending"}, StepStatuses)

SpecClosure == Init /\ [][NextClosure]_vars

\* Ticks in which phases raise, and a trigger of an unknown action type.
NextFaults ==
    \/ Tick(QuietFetches)
    \/ SyncRaises
    \/ PhaseRaises
    \/ CreateProposal(WorkInputs, MaxWorkedProposals)
    \/ CreateTrigger(BrokenTriggers)
    \/ CreateEvent(PlainEvents)

SpecFaults == Init /\ [][NextFaults]_vars

\* Proposals under manual review: by the engine's functions and over REST,
\* between ticks that approve and expire.
NextReview ==
    \/ Tick(QuietFetches)
    \/ CreateProposal(ProposalInputs, MaxProposals)
    \/ UpdateProposal(BOOLEAN)
    \/ ApproveProposal
    \/ RejectProposal
    \/ ReviewProposal(ReviewBodies)
    \/ AdvanceTime(ExpiryInstants)

SpecReview == Init /\ [][NextReview]_vars

\* Steps are moved by the step handlers; PATCH reopens a failed step and
\* closes a pending one.
NextSteps ==
    \/ Tick(QuietFetches)
    \/ CreateProposal(WorkInputs, MaxWorkedProposals)
    \/ ClaimStep
    \/ StartStep
    \/ CompleteStep
    \/ FailStep
    \/ UpdateStep({"pending", "failed"}, {"pending", "completed"})

SpecSteps == Init /\ [][NextSteps]_vars

\* Work cycles run one after the other, against every answer of the
\* gateway; agents also claim steps over REST.
NextDispatch ==
    \/ Tick(QuietFetches)
    \/ CreateProposal(WorkInputs, MaxWorkedProposals)
    \/ ClaimStep
    \/ WorkSelect(DOMAIN Agents, TRUE, MaxCycles)
    \/ WorkClaim
    \/ WorkStart
    \/ WorkDispatch(DispatchOutcomes)
    \/ WorkRaise
    \/ WorkFinish

SpecDispatch == Init /\ [][NextDispatch]_vars

\* The agents of one project run their work cycles side by side.
NextRace ==
    \/ Tick(QuietFetches)
    \/ CreateProposal(WorkInputs, MaxWorkedProposals)
    \/ WorkSelect({"a1", "a2"}, FALSE, MaxEvents)
    \/ WorkClaim
    \/ WorkStart
    \/ WorkDispatch({"ok"})
    \/ WorkFinish

SpecRace == Init /\ [][NextRace]_vars

\* The streams of board b1 connect, read frames, drop and reconnect.
NextBackoff ==
    \/ StartAllBoardStreams
    \/ Connect(ConsumersOf({"b1"}))
    \/ Disconnect(ConsumersOf({"b1"}), MaxFailures)
    \/ Sleep(ConsumersOf({"b1"}))
    \/ Frame(ConsumersOf({"b1"}), QuietFetches, MaxFrames)
    \/ StreamSyncCommit

SpecBackoff == Init /\ [][NextBackoff]_vars

\* Ticks requested over HTTP run on the worker threads of the server while
\* the task stream of board b1 reads frames on the event loop.
NextSerial ==
    \/ Tick(OneTaskFetches)
    \/ StartAllBoardStreams
    \/ Connect(ConsumersOf({"b1"}))
    \/ Frame(ConsumersOf({"b1"}), OneTaskFetches, MaxFrames)
    \/ StreamSyncCommit

SpecSerial == Init /\ [][NextSerial]_vars

\* The streams of both boards run and the server shuts down: board b1 is
\* unreliable, board b2 sends frames.
NextStop ==
    \/ StartAllBoardStreams
    \/ Connect(Consumers)
    \/ Disconnect(ConsumersOf({"b1"}), MaxDrops)
    \/ Sleep(ConsumersOf({"b1"}))
    \/ Frame(ConsumersOf({"b2"}), QuietFetches, MaxFrames)
    \/ StreamSyncCommit
    \/ StopAllStreams
    \/ Cancelled

SpecStop == Init /\ [][NextStop]_vars

\* A task of board b1 becomes a mission, agents complete its steps, and a
\* trigger evaluates the completion of missions.
NextReport ==
    \/ Tick(OneTaskFetches)
    \/ CreateProposal(WorkInputs, MaxWorkedProposals)
    \/ CreateTrigger(WorkTriggers)
    \/ WorkCycle({"ok"})

SpecReport == Init /\ [][NextReport]_vars

\* Trigger matching: triggers of every pattern, events of every kind, ticks.
NextMatch ==
    \/ Tick(QuietFetches)
    \/ CreateTrigger(MatchTriggers)
    \/ CreateEvent(MatchEvents)

SpecMatch == Init /\ [][NextMatch]_vars

\* Trigger evaluation: several triggers of one project, events with and
\* without a mission, and the clock moving past the window.
NextFanout ==
    \/ Tick(QuietFetches)
    \/ CreateProposal(WorkInputs, MaxWorkedProposals)
    \/ CreateTriggers(FanoutTriggers, MaxOrderedTriggers)
    \/ CreateEvent(FanoutEvents)
    \/ AdvanceTime(WindowInstants)

SpecFanout == Init /\ [][NextFanout]_vars

\* The life of a mission: ticks, the triggers of the seed, work cycles that
\* the agent answers, and the clock.
NextLifecycle ==
    \/ Tick(QuietFetches)
    \/ CreateProposal(WorkInputs, MaxWorkedProposals)
    \/ CreateTrigger(WorkTriggers)
    \/ WorkCycle({"ok"})
    \/ AdvanceTime(WindowInstants)

SpecLifecycle == Init /\ [][NextLifecycle]_vars

\* The lines of one approvals stream, with the connection lost and made
\* again.
NextLines ==
    \/ StartAllBoardStreams
    \/ Connect({<<"b1", "approvals">>})
    \/ Disconnect({<<"b1", "approvals">>}, MaxDrops)
    \/ Sleep({<<"b1", "approvals">>})
    \/ ReadLine({<<"b1", "approvals">>}, StreamLines, MaxLines)

SpecLines == Init /\ [][NextLines]_vars

\* Consumers that lose their connection again and again, until the streams
\* are stopped.  The event loop resumes a consumer whose sleep is over.
NextReconnect ==
    \/ StartAllBoardStreams
    \/ Connect(ConsumersOf({"b1"}))
    \/ Disconnect(ConsumersOf({"b1"}), MaxFailures)
    \/ Sleep(ConsumersOf({"b1"}))
    \/ StopAllStreams
    \/ Cancelled

SpecReconnect ==
    /\ Init
    /\ [][NextReconnect]_vars
    /\ \A c \in ConsumersOf({"b1"}) : WF_vars(Sleep({c}))

\* The plugin manager sorting the manifests it found.
NextPlugins ==
    \/ Discover
    \/ SortStart
    \/ SortStep
    \/ SortReturn

SpecPlugins == Init /\ [][NextPlugins]_vars

\* The events one mission leaves in the store on its way: one for each of
\* its default steps and one for its closure.
EventsOfAMission == Len(default_steps(1)) + 1

\* The pipeline left to itself: no trigger, a gateway that answers ok or is
\* not installed, and no more proposals than the store holds the events of.
PipelineOutcomes == {"ok", "unavailable"}
GeneralWorkers ==
    {a \in ActiveAgentsOf("p1") :
        "general_work" \in Get(Agents[a].config, "capabilities", {})}

NextPipeline ==
    \/ Tick(QuietFetches)
    \/ CreateProposal(WorkInputs, Min(MaxWorkedProposals,
                                      MaxEvents \div EventsOfAMission))
    \/ WorkCycleOf(GeneralWorkers, PipelineOutcomes)
    \/ WorkCycleOf(DOMAIN Agents \ GeneralWorkers, PipelineOutcomes)
    \/ AdvanceTime(WindowInstants)

\* Ticks and the work cycles of the agent holding general_work keep being
\* called: a tick can always run, a work cycle runs between two ticks.
SpecPipeline ==
    /\ Init
    /\ [][NextPipeline]_vars
    /\ WF_vars(Tick(QuietFetches))
    /\ SF_vars(WorkCycleOf(GeneralWorkers, PipelineOutcomes))

\* A mission that came from a board and one that did not; their steps are
\* claimed and failed over REST.
NextEscalation ==
    \/ Tick(OneTaskFetches)
    \/ CreateProposal(WorkInputs, MaxProposals)
    \/ ClaimStep
    \/ FailStep

SpecEscalation == Init /\ [][NextEscalation]_vars

(***************************************************************************)
(* Properties.                                                             *)
(***************************************************************************)
DefaultPlan ==
    {<<0, "research">>, <<1, "code">>, <<2, "test">>, <<3, "review">>}

\* The mission has the four default steps and no other step.
HoldsDefaultSteps(stepRows, m) ==
    /\ Cardinality(StepsOf(stepRows, m)) = 4
    /\ {<<stepRows[i].order_index, stepRows[i].step_type>> :
            i \in StepsOf(stepRows, m)} = DefaultPlan

ApprovableAtStart(i) ==
    /\ tick_start.proposals[i].status = "pending"
    /\ should_auto_approve(tick_start.proposals[i])

MaterializedInTick(i) ==
    /\ proposals[i].status = "approved"
    /\ Cardinality(MissionsOf(missions, i)) = 1
    /\ \A m \in MissionsOf(missions, i) :
          /\ missions[m].status = "active"
          /\ HoldsDefaultSteps(steps, m)

TickOrder ==
    {<<"idle", "approvals">>, <<"approvals", "triggers">>,
     <<"triggers", "missions">>, <<"missions", "steps">>,
     <<"steps", "completions">>, <<"completions", "escalate">>,
     <<"escalate", "cleanup">>, <<"cleanup", "done">>, <<"done", "idle">>}

KeywordTitles ==
    {TitleFix, TitlePatch, TitleHotfix, TitleTypo, TitleDocs,
     TitleDocumentation, TitleReadme, TitleTest, TitleSpec, TitleTesting}

FlaggedKeywordAtStart(i) ==
    /\ tick_start.proposals[i].status = "pending"
    /\ tick_start.proposals[i].auto_approve
    /\ tick_start.proposals[i].title \in KeywordTitles

ApprovedBySystem(i) ==
    proposals[i].status = "approved" /\ proposals[i].reviewed_by = "system"

\* C2: when a tick is done, every proposal that was PENDING with
\* auto_approve set and a title holding one of the keywords (in any case)
\* when the tick began is APPROVED and reviewed by "system", whatever its
\* priority and whatever the configuration of its agent.
C2_FlaggedKeywordApproved ==
    pc = "done" =>
        \A i \in Ids(tick_start.proposals) :
            FlaggedKeywordAtStart(i) => ApprovedBySystem(i)

\* A critical proposal of an agent without auto-approval settings.
C2_Witness ==
    /\ pc = "done"
    /\ \E i \in Ids(tick_start.proposals) :
          /\ FlaggedKeywordAtStart(i)
          /\ ApprovedBySystem(i)
          /\ proposals[i].priority = "critical"
          /\ proposals[i].agent_id = "a2"
          /\ proposals[i].title = TitleReadme

UnflaggedAtStart(i) == ~tick_start.proposals[i].auto_approve

StaleAtStart(i) ==
    /\ tick_start.proposals[i].status = "pending"
    /\ now - tick_start.proposals[i].created_at > ExpireMinutes

\* C3, as stated: when a tick is done, every proposal that had auto_approve
\* unset when the tick began has the status it had then.
C3_UnflaggedStatusKept ==
    pc = "done" =>
        \A i \in Ids(tick_start.proposals) :
            UnflaggedAtStart(i) =>
                proposals[i].status = tick_start.proposals[i].status

\* C3, amended: when a tick is done, a proposal that had auto_approve unset
\* when the tick began is EXPIRED if it was PENDING and older than 7 days,
\* and has the status it had otherwise.
C3_UnflaggedOnlyExpires ==
    pc = "done" =>
        \A i \in Ids(tick_start.proposals) :
            UnflaggedAtStart(i) =>
                proposals[i].status =
                    IF StaleAtStart(i) THEN "expired"
                    ELSE tick_start.proposals[i].status

\* An unflagged proposal with a keyword title, of an agent with auto-approval
\* settings, is still PENDING after a tick.
C3_Witness ==
    /\ pc = "done"
    /\ \E i \in Ids(tick_start.proposals) :
          /\ UnflaggedAtStart(i)
          /\ tick_start.proposals[i].status = "pending"
          /\ proposals[i].status = "pending"
          /\ proposals[i].title = TitleFix
          /\ proposals[i].priority = "low"
          /\ proposals[i].agent_id = "a1"

\* C4, as stated: when a tick is done, every proposal that was APPROVED
\* without a mission when the tick began has exactly one mission, assigned
\* to the proposal's agent; and in every state a proposal has at most one
\* mission and the proposal of every mission is APPROVED (no operation takes
\* a proposal out of APPROVED, so it is APPROVED if it ever was).
C4_OneMissionPerApprovedProposal ==
    /\ pc = "done" =>
          \A i \in Ids(tick_start.proposals) :
              (/\ tick_start.proposals[i].status = "approved"
               /\ MissionsOf(tick_start.missions, i) = {})
              => /\ Cardinality(MissionsOf(missions, i)) = 1
                 /\ \A m \in MissionsOf(missions, i) :
                       missions[m].assigned_agent_id = proposals[i].agent_id
    /\ \A i \in Ids(proposals) : Cardinality(MissionsOf(missions, i)) <= 1
    /\ \A m \in Ids(missions) :
          /\ missions[m].proposal_id \in Ids(proposals)
          /\ proposals[missions[m].proposal_id].status = "approved"

PlannedBareAtStart(m) ==
    /\ tick_start.missions[m].status = "planned"
    /\ StepsOf(tick_start.steps, m) = {}

\* C5, as stated: when a tick is done, every mission that was PLANNED
\* without steps when the tick began is ACTIVE and has exactly the four
\* default steps, all PENDING and unclaimed; and no mission ever holds a
\* default step twice.
C5_PlannedGetsDefaultSteps ==
    /\ pc = "done" =>
          \A m \in Ids(tick_start.missions) :
              PlannedBareAtStart(m)
              => /\ missions[m].status = "active"
                 /\ HoldsDefaultSteps(steps, m)
                 /\ \A i \in StepsOf(steps, m) :
                       /\ steps[i].status = "pending"
                       /\ steps[i].claimed_by_agent_id = None
    /\ \A m \in Ids(missions) :
          \A i, j \in StepsOf(steps, m) :
              (steps[i].title \in DefaultTitles
               /\ steps[i].title = steps[j].title) => i = j

AllCompleted(m) ==
    /\ StepsOf(steps, m) # {}
    /\ \A i \in StepsOf(steps, m) : steps[i].status = "completed"

\* C6: the closure phase sets an ACTIVE mission to COMPLETED, with
\* completed_at the time of the tick, when the mission has a step and all
\* its steps are COMPLETED, and leaves every other ACTIVE mission as it is.
C6_ClosureIffAllCompleted ==
    [][(pc = "completions" /\ pc' # pc) =>
          \A m \in Ids(missions) :
              missions[m].status = "active" =>
                  IF AllCompleted(m)
                  THEN /\ missions'[m].status = "completed"
                       /\ missions'[m].completed_at = now
                  ELSE missions'[m] = missions[m]]_vars

\* The closure phase has just completed a mission.
C6_Witness ==
    /\ pc = "escalate"
    /\ \E m \in Ids(missions) :
          /\ missions[m].status = "completed"
          /\ missions[m].completed_at = now
          /\ AllCompleted(m)

\* C7, the half the claim spells out: a COMPLETED mission has a step and all
\* its steps are COMPLETED.
C7_CompletedHasOnlyCompletedSteps ==
    \A m \in Ids(missions) : missions[m].status = "completed" => AllCompleted(m)

\* C8: no two proposals carry the same mc_task_id.
C8_TaskIdUnique ==
    \A i, j \in Ids(proposals) :
        (proposals[i].mc_task_id # None
         /\ proposals[i].mc_task_id = proposals[j].mc_task_id) => i = j

\* Two synced proposals, the first of which is no longer PENDING.
C8_Witness ==
    /\ Len(proposals) = 2
    /\ \A i \in Ids(proposals) : proposals[i].mc_task_id # None
    /\ proposals[1].status \in {"approved", "expired"}
    /\ proposals[2].created_at > proposals[1].created_at

\* C9, as stated: no proposal comes from a board whose project is
\* DECOMMISSIONED.
C9_DecommissionedSkipped ==
    \A i \in Ids(proposals) :
        proposals[i].mc_board_id # None =>
            \A p \in ProjectBySlug(BOARD_PROJECT_MAP[proposals[i].mc_board_id]) :
                Projects[p].status # "decommissioned"

Expires(proposal) ==
    proposal.status = "pending" /\ now - proposal.created_at > ExpireMinutes

\* C10: the retention phase removes the events created more than 30 days
\* ago and keeps the other events, in particular those of the last 5
\* minutes; it sets to EXPIRED the PENDING proposals created more than 7 days
\* ago and leaves every other proposal as it is.
C10_RetentionExact ==
    [][(pc = "cleanup" /\ pc' # pc) =>
          /\ events' = SelectSeq(events,
                 LAMBDA e : now - e.created_at <= RetentionMinutes)
          /\ \A k \in Ids(events) :
                now - events[k].created_at <= TriggerWindowMinutes
                => \E j \in Ids(events') : events'[j] = events[k]
          /\ Len(proposals') = Len(proposals)
          /\ \A i \in Ids(proposals) :
                proposals'[i] =
                    IF Expires(proposals[i])
                    THEN [proposals[i] EXCEPT !.status = "expired"]
                    ELSE proposals[i]]_vars

\* A tick whose retention phase removed an event and expired a proposal.
C10_Witness ==
    /\ pc = "done"
    /\ Len(events) < Len(tick_start.events)
    /\ \E i \in Ids(tick_start.proposals) :
          /\ tick_start.proposals[i].status = "pending"
          /\ proposals[i].status = "expired"

(***************************************************************************)
(* Failure semantics of the tick.                                          *)
(***************************************************************************)
\* C11: when a tick returns, every phase that raised during the tick has an
\* entry in OrchestrationResult.errors.
C11_RaisedPhasesReported ==
    pc = "done" =>
        \A phase \in tick_start.raised :
            \E k \in Ids(errors) : errors[k].phase = phase

(***************************************************************************)
(* Manual review of proposals.                                             *)
(***************************************************************************)
\* A review by a person: the row's reviewer becomes someone other than the
\* system.
ReviewedByHand(before, after) ==
    /\ after.reviewed_by \notin {None, "system"}
    /\ <<after.status, after.reviewed_by, after.reviewed_at>>
           # <<before.status, before.reviewed_by, before.reviewed_at>>

\* C12: a manual review changes a proposal only when it is PENDING: it sets
\* APPROVED or REJECTED with the reviewer and the time, and a rejection
\* appends the rejection line to the rationale; an approval leaves the
\* rationale alone.
C12_ManualReviewOnlyPending ==
    [][\A i \in Ids(proposals) :
          ReviewedByHand(proposals[i], proposals'[i]) =>
              /\ proposals[i].status = "pending"
              /\ proposals'[i].status \in {"approved", "rejected"}
              /\ proposals'[i].reviewed_at = now
              /\ proposals'[i].status = "approved" =>
                     proposals'[i].rationale = proposals[i].rationale
              /\ proposals'[i].status = "rejected" =>
                     \E reason \in RejectionReasons \cup {"not now"} :
                         proposals'[i].rationale =
                             proposals[i].rationale \o RejectionLine(reason)]_vars

TerminalProposalStatuses == {"approved", "rejected", "expired"}

\* C13: a proposal that is APPROVED, REJECTED or EXPIRED keeps its status in
\* every step of every operation.
C13_TerminalStatusKept ==
    [][\A i \in Ids(proposals) :
          proposals[i].status \in TerminalProposalStatuses =>
              proposals'[i].status = proposals[i].status]_vars

\* A tick has run its approval and retention phases over a proposal that a
\* person rejected, that carries the auto-approve flag and is older than the
\* expiry period.
C13_Witness ==
    /\ pc = "done"
    /\ \E i \in Ids(tick_start.proposals) :
          /\ tick_start.proposals[i].status = "rejected"
          /\ tick_start.proposals[i].auto_approve
          /\ tick_start.proposals[i].created_at < now - ExpireMinutes

(***************************************************************************)
(* The life of a step.                                                     *)
(***************************************************************************)
TerminalStepStatuses == {"completed", "failed", "skipped"}

\* How far a status is along PENDING, CLAIMED, RUNNING, terminal.
StatusRank(status) ==
    IF status = "pending" THEN 0
    ELSE IF status = "claimed" THEN 1
    ELSE IF status = "running" THEN 2
    ELSE 3

\* C14: in every step of every operation, a step whose status changes moves
\* forward along PENDING, CLAIMED, RUNNING, terminal: it never moves backward,
\* never leaves a terminal status and never changes from one terminal status
\* to another.
C14_StatusMovesForward ==
    [][\A s \in Ids(steps) :
          steps'[s].status # steps[s].status =>
              StatusRank(steps'[s].status) > StatusRank(steps[s].status)]_vars

\* C15: a step has a claimant exactly when its status is CLAIMED, RUNNING,
\* COMPLETED or FAILED.
C15_ClaimantIffClaimedStatus ==
    \A s \in Ids(steps) :
        steps[s].claimed_by_agent_id # None
            <=> steps[s].status \in {"claimed", "running", "completed", "failed"}

(***************************************************************************)
(* Work cycles.                                                            *)
(***************************************************************************)
\* What the claim asks of a step an agent may be given.
Eligible(agent_id, s) ==
    LET capabilities == Agents[agent_id].config.capabilities
    IN  /\ missions[steps[s].mission_id].project_id = Agents[agent_id].project_id
        /\ steps[s].status \in {"pending", "claimed"}
        /\ steps[s].claimed_by_agent_id \in {None, agent_id}
        /\ \/ step_capability_map[steps[s].step_type] \in capabilities
           \/ "general_work" \in capabilities

\* s comes no later than r by order_index, then by creation.
NoLater(s, r) ==
    \/ steps[s].order_index < steps[r].order_index
    \/ steps[s].order_index = steps[r].order_index /\ s <= r

\* Agent a's cycle takes a step in this step of the behaviour.
Selects(a) == work[a].pc = "idle" /\ work'[a].pc = "claim"

\* Agent a's cycle writes in this step of the behaviour.
Writes(a) == work[a].pc \in {"claim", "start", "finish"} /\ work'[a] # work[a]

StepEndEvents(evts, s) ==
    {k \in Ids(evts) :
        /\ evts[k].event_type \in {"step.completed", "step.failed"}
        /\ evts[k].payload.step_id = s}

\* C17: with the agents of one project in their work cycles at once, a
\* step's claimant is never replaced by another agent, no two agents are
\* dispatching the same step, and no step is dispatched to its end twice.
C17_OneClaimantOneDispatch ==
    [][\A s \in Ids(steps) :
          /\ steps[s].claimed_by_agent_id # None =>
                 steps'[s].claimed_by_agent_id = steps[s].claimed_by_agent_id
          /\ Cardinality({a \in DOMAIN Agents :
                             /\ work'[a].pc \in {"dispatch", "finish"}
                             /\ work'[a].step = s}) <= 1
          /\ Cardinality(StepEndEvents(events', s)) <= 1]_vars

\* Agent a's cycle returns in this step of the behaviour.
Finishes(a) == work[a].pc = "finish" /\ work'[a].pc = "idle"

\* What every cycle leaves behind: the step terminal and stamped.
EndsTerminal(row) ==
    /\ row.status \in TerminalStepStatuses
    /\ row.completed_at = now

\* The selection never returns a FAILED step.
NoRetry ==
    \A a \in DOMAIN Agents :
        Selects(a) => steps[work'[a].step].status # "failed"

\* C18 as stated: when a work cycle returns, its step is terminal with
\* completed_at set; an answer ok with text gave COMPLETED with the text, an
\* answer with another status or ok without text gave FAILED with an error,
\* an unavailable dispatcher gave COMPLETED with the canned output of the
\* step's type; a FAILED step is never selected again.
C18_EmptyTextFails ==
    [][/\ NoRetry
       /\ \A a \in DOMAIN Agents :
             Finishes(a) =>
                 LET result == work[a].result
                     row == steps'[work[a].step]
                 IN  /\ EndsTerminal(row)
                     /\ result = "ok" =>
                            row.status = "completed" /\ row.output = ResponseText
                     /\ result \in {"error", "ok_empty"} =>
                            row.status = "failed" /\ row.error # None
                     /\ result = "unavailable" =>
                            /\ row.status = "completed"
                            /\ row.output = SimulatedOutput(row)]_vars

\* C18: when a work cycle returns, its step is terminal with completed_at
\* set; an answer ok with text gave COMPLETED with the text, an answer ok
\* without text gave COMPLETED with the placeholder output, an answer with
\* another status gave FAILED with an error, an unavailable dispatcher gave
\* COMPLETED with the canned output of the step's type; a FAILED step is
\* never selected again.
C18_OutcomeByAnswer ==
    [][/\ NoRetry
       /\ \A a \in DOMAIN Agents :
             Finishes(a) =>
                 LET result == work[a].result
                     row == steps'[work[a].step]
                 IN  /\ EndsTerminal(row)
                     /\ result = "ok" =>
                            row.status = "completed" /\ row.output = ResponseText
                     /\ result = "ok_empty" =>
                            row.status = "completed" /\ row.output = NoTextOutput
                     /\ result = "error" =>
                            /\ row.status = "failed"
                            /\ row.error # None
                            /\ row.output = None
                     /\ result = "unavailable" =>
                            /\ row.status = "completed"
                            /\ row.output = SimulatedOutput(row)]_vars

\* A mission holds a step that failed on the agent's answer and a later step
\* that a work cycle then took and completed with the placeholder output.
C18_Witness ==
    \E f, e \in Ids(steps) :
        /\ steps[f].status = "failed" /\ steps[f].error # None
        /\ steps[e].status = "completed" /\ steps[e].output = NoTextOutput
        /\ steps[e].mission_id = steps[f].mission_id
        /\ steps[f].order_index < steps[e].order_index
        /\ StepEndEvents(events, f) # {} /\ StepEndEvents(events, e) # {}

\* C19: a work cycle whose dispatch failed in transport returns with the
\* step in the status it had before the dispatch: the step is not recorded
\* as COMPLETED.
C19_TimeoutKeepsStatus ==
    [][\A a \in DOMAIN Agents :
          (Finishes(a) /\ work[a].result = "gateway_error") =>
              /\ steps'[work[a].step].status = steps[work[a].step].status
              /\ steps'[work[a].step].status # "completed"]_vars

(***************************************************************************)
(* Escalation of stuck missions.                                           *)
(***************************************************************************)
\* The escalation phase runs in this step of the behaviour.
Escalates == pc = "escalate" /\ pc' # "escalate"

\* What the claim asks of a mission to be escalated.
MeetsEscalation(m) ==
    /\ missions[m].status = "active"
    /\ \E s \in StepsOf(steps, m) : steps[s].status = "failed"
    /\ \A s \in StepsOf(steps, m) :
           steps[s].status \notin {"pending", "claimed", "running"}
    /\ proposals[missions[m].proposal_id].mc_board_id # None

\* The ask-user calls and the events the phase adds for mission m.
NewCalls(m) ==
    {k \in Ids(asked') \ Ids(asked) : asked'[k].content.mission = m}

NewEscalations(m) ==
    {k \in Ids(events') \ Ids(events) :
        /\ events'[k].event_type = "mission.escalated"
        /\ events'[k].payload.mission_id = m}

\* The call goes to the board of the mission's proposal, names a failed step
\* of the mission and carries the mission's correlation id.
NamesMission(call, m) ==
    /\ call.board_id = proposals[missions[m].proposal_id].mc_board_id
    /\ call.correlation_id = <<"stuck-mission-", m>>
    /\ \E s \in StepsOf(steps, m) :
          /\ steps[s].status = "failed"
          /\ call.content.failed_step = steps[s].title
          /\ call.content.step_type = steps[s].step_type

StatusesKept ==
    /\ \A m \in Ids(missions) : missions'[m].status = missions[m].status
    /\ \A s \in Ids(steps) : steps'[s].status = steps[s].status

RECURSIVE Pow2(_)
Pow2(n) == IF n = 0 THEN 1 ELSE 2 * Pow2(n - 1)

\* Consumer c's sleep ends in this step of the behaviour.
Sleeps(c) ==
    streams.consumer[c].pc = "sleep" /\ streams'.consumer[c].pc = "connect"

\* C21: the k-th sleep of a consumer since its last successful connect, or
\* since its start, lasts min(2^(k-1), 60) seconds: 1 s after the first
\* failure or drop, doubled on each further failure, never more than 60 s.
C21_BackoffDoubles ==
    [][\A c \in Consumers :
          Sleeps(c) =>
              streams'.consumer[c].slept =
                  Min(Pow2(streams.consumer[c].failures), BackoffCap)]_vars

\* One consumer has slept at the cap twice in a row while the other, after
\* reading a frame and losing its connection, slept 1 s.
C21_Witness ==
    \E c, d \in Consumers :
        /\ streams.consumer[c].failures = MaxFailures
        /\ streams.consumer[c].slept = BackoffCap
        /\ streams.consumer[d].frames > 0
        /\ streams.consumer[d].failures = 1
        /\ streams.consumer[d].slept = InitialBackoff

\* A tick, or the sync a task frame called, starts in this step.
TickStarts == pc = "idle" /\ pc' # "idle"
SyncStarts == streams.sync.pc = "idle" /\ streams'.sync.pc # "idle"

\* C22: a tick is not started while a stream-triggered sync is between its
\* read and its commit, and a stream-triggered sync is not started while a
\* tick is running.
C22_TicksAndSyncsSerialized ==
    [][/\ TickStarts => streams.sync.pc = "idle"
       /\ SyncStarts => pc = "idle"]_vars

\* C23: once stop_all_streams has returned, _active_streams is empty and
\* every consumer that was started has terminated.
C23_StoppedMeansTerminated ==
    streams.stopped =>
        /\ streams.active = {}
        /\ \A c \in Consumers : streams.consumer[c].pc \in {"none", "done"}

(***************************************************************************)
(* The step handlers at their boundary.                                    *)
(***************************************************************************)
\* C24: for every step the store comes to hold and every agent, a claim on
\* a step that is not PENDING or is claimed by another agent, a start on a
\* step that is not CLAIMED, and a complete or fail on a step that is
\* neither CLAIMED nor RUNNING are answered with a conflict and leave the
\* step as it is; a claim on a PENDING step that no other agent claimed is
\* answered with success and gives CLAIMED with the claiming agent.
C24_ConflictsRejected ==
    \A s \in Ids(steps), agent_id \in DOMAIN Agents :
        LET step == steps[s]
            claimable ==
                /\ step.status = "pending"
                /\ step.claimed_by_agent_id \in {None, agent_id}
        IN  /\ ~claimable =>
                   /\ claim_step_response(step, agent_id) = "conflict"
                   /\ claim_step(step, agent_id) = step
            /\ claimable =>
                   /\ claim_step_response(step, agent_id) = "ok"
                   /\ claim_step(step, agent_id).status = "claimed"
                   /\ claim_step(step, agent_id).claimed_by_agent_id = agent_id
            /\ step.status # "claimed" =>
                   /\ start_step_response(step) = "conflict"
                   /\ start_step(step, now) = step
            /\ step.status \notin {"claimed", "running"} =>
                   /\ complete_step_response(step) = "conflict"
                   /\ complete_step(step, "done by hand", now) = step
                   /\ fail_step_response(step) = "conflict"
                   /\ fail_step(step, "gave up", now) = step

(***************************************************************************)
(* The events of a work cycle.                                             *)
(***************************************************************************)
\* Agent a's cycle returns in this step of the behaviour.
CycleEnds(a) == work[a].pc # "idle" /\ work'[a].pc = "idle"

\* The events this step of the behaviour records for step s.
RecordedFor(s) ==
    {k \in Ids(events') \ Ids(events) :
        /\ events'[k].event_type \in {"step.completed", "step.failed"}
        /\ events'[k].payload.step_id = s}

\* C25: a work cycle that returns with its step COMPLETED or FAILED has
\* recorded exactly one event for the step, step.completed or step.failed
\* as the status says, whose payload carries step_id, mission_id, step_type
\* and agent_name.
C25_OneEventPerTerminalStep ==
    [][\A a \in DOMAIN Agents :
          LET s == work[a].step
          IN  (CycleEnds(a) /\ steps'[s].status \in {"completed", "failed"}) =>
                  /\ Cardinality(RecordedFor(s)) = 1
                  /\ \A k \in RecordedFor(s) :
                        /\ events'[k].event_type =
                              (IF steps'[s].status = "completed"
                               THEN "step.completed" ELSE "step.failed")
                        /\ {"step_id", "mission_id", "step_type", "agent_name"}
                              \subseteq DOMAIN events'[k].payload
                        /\ events'[k].payload.mission_id = steps'[s].mission_id
                        /\ events'[k].payload.step_type = steps'[s].step_type
                        /\ events'[k].payload.agent_name = a]_vars

(***************************************************************************)
(* The report of a closed mission to its board.                            *)
(***************************************************************************)
\* Mission m closes in this step of the behaviour.
Closes(m) ==
    /\ m \in Ids(missions)
    /\ missions[m].status # "completed"
    /\ missions'[m].status = "completed"

\* The board calls this step of the behaviour makes.
CallsMade == {asked'[k] : k \in Ids(asked') \ Ids(asked)}

Reported == {errors'[k].trigger : k \in Ids(errors') \ Ids(errors)}

\* Every (key, value) of the pattern's conditions is in the payload.
ConditionsHold(event, pattern) ==
    "conditions" \in DOMAIN pattern =>
        \A key \in DOMAIN pattern.conditions :
            /\ key \in DOMAIN event.payload
            /\ event.payload[key] = pattern.conditions[key]

\* The match as stated: same project, the type the pattern names, the
\* conditions in the payload.
StatedMatch(event, trigger) ==
    /\ event.project_id = trigger.project_id
    /\ "event_type" \in DOMAIN trigger.event_pattern
    /\ event.event_type = trigger.event_pattern.event_type
    /\ ConditionsHold(event, trigger.event_pattern)

\* The match with a pattern that names no type taking every type.
TypeOptionalMatch(event, trigger) ==
    /\ event.project_id = trigger.project_id
    /\ ("event_type" \in DOMAIN trigger.event_pattern =>
            event.event_type = trigger.event_pattern.event_type)
    /\ ConditionsHold(event, trigger.event_pattern)

\* The events of the last 5 minutes.
InWindow == {i \in Ids(events) : events[i].created_at >= now - TriggerWindowMinutes}

\* C27 as stated: the trigger phase acts on a trigger exactly when an event
\* of the window has the trigger's project, the type the pattern names and
\* every condition of the pattern in its payload.
C27_MatchAsStated ==
    [][pc = "triggers" =>
          \A k \in Ids(triggers) :
              triggers[k].name \in Reported <=>
                  \E i \in InWindow : StatedMatch(events[i], triggers[k])]_vars

\* C27: the trigger phase acts on a trigger exactly when an event of the
\* window has the trigger's project, the type the pattern names if it names
\* one, and every condition of the pattern in its payload with an equal
\* value; an event of another project, of another type than the one named,
\* or that misses or differs on a condition key never makes it act.
C27_MatchExact ==
    [][pc = "triggers" =>
          \A k \in Ids(triggers) :
              triggers[k].name \in Reported <=>
                  \E i \in InWindow :
                      TypeOptionalMatch(events[i], triggers[k])]_vars

\* A trigger with a type and two conditions has matched an event.
C27_Witness ==
    /\ pc = "missions"
    /\ \E k \in Ids(triggers), j \in Ids(errors) :
          /\ triggers[k].name = "two_keys"
          /\ errors[j] = TickError("triggers", "two_keys")

(***************************************************************************)
(* Trigger evaluation within a tick.                                       *)
(***************************************************************************)
EnabledTriggers == {k \in Ids(triggers) : triggers[k].enabled}

\* A sequence of trigger ids in creation order, none of them twice.
InCreationOrder(seq) == \A i, j \in Ids(seq) : i < j => seq[i] < seq[j]

\* The action of trigger k succeeds in this step of the behaviour: a step
\* with the title it asks for is added.
Succeeded(k) ==
    /\ triggers[k].action.type = "create_step"
    /\ \E i \in Ids(steps') \ Ids(steps) :
          steps'[i].title = Get(triggers[k].action, "title",
                                "Auto-generated step")

\* An event of the window matches trigger k and names a mission of the store.
HasUsableEvent(k) ==
    \E i \in InWindow :
        /\ TypeOptionalMatch(events[i], triggers[k])
        /\ "mission_id" \in DOMAIN events[i].payload
        /\ events[i].payload.mission_id \in Ids(missions)

KnownActions == {"create_step", "evaluate_mission_completion"}

\* Trigger k is enabled, has an action type the engine does not know, and
\* matches an event of the window.
MatchedUnknown(k) ==
    /\ triggers[k].enabled
    /\ Get(triggers[k].action, "type", None) \notin KnownActions
    /\ \E i \in InWindow : TypeOptionalMatch(events[i], triggers[k])

\* C29: when the trigger phase meets a matched trigger whose action type is
\* unknown, the tick result gets an error that names it; the trigger keeps
\* its last_fired_at and is not counted as fired, the missions and the steps
\* there were are unchanged and every step added is the work of another
\* trigger; the triggers after it are evaluated, and fire when they have an
\* event to act on, and the tick goes on to its next phase.
C29_UnknownActionReported ==
    [][\A k \in Ids(triggers) :
          (pc = "triggers" /\ MatchedUnknown(k)) =>
              /\ triggers[k].name \in Reported
              /\ triggers'[k] = triggers[k]
              /\ tick_result'.triggers_fired =
                     Cardinality({j \in Ids(triggers) \ {k} : Succeeded(j)})
              /\ missions' = missions
              /\ \A i \in Ids(steps) : steps'[i] = steps[i]
              /\ \A i \in Ids(steps') \ Ids(steps) :
                    \E j \in Ids(triggers) \ {k} :
                        /\ Succeeded(j)
                        /\ steps'[i].title = Get(triggers[j].action, "title",
                                                  "Auto-generated step")
              /\ \A j \in EnabledTriggers :
                    j > k =>
                        /\ \E i \in Ids(tick_result'.order) :
                              tick_result'.order[i] = j
                        /\ (triggers[j].action.type = "create_step"
                               /\ HasUsableEvent(j)) => Succeeded(j)
              /\ pc' = "missions"]_vars

\* A tick has reported a trigger with an unknown action and fired the
\* trigger created after it.
C29_Witness ==
    /\ pc = "done"
    /\ Len(triggers) = 2
    /\ triggers[1].name = "notify"
    /\ \E j \in Ids(errors) : errors[j] = TickError("triggers", "notify")
    /\ triggers[1].last_fired_at = NoTime
    /\ triggers[2].last_fired_at = now
    /\ tick_result.triggers_fired = 1

(***************************************************************************)
(* The CreateStep action.                                                  *)
(***************************************************************************)
\* The steps this step of the behaviour adds with the title trigger k asks
\* for.
StepsAddedFor(k) ==
    {i \in Ids(steps') \ Ids(steps) :
        steps'[i].title = Get(triggers[k].action, "title",
                              "Auto-generated step")}

\* The missions of the store that the events of the window matching
\* trigger k name.
MissionsNamedFor(k) ==
    {events[i].payload.mission_id :
        i \in {j \in InWindow :
                 /\ TypeOptionalMatch(events[j], triggers[k])
                 /\ "mission_id" \in DOMAIN events[j].payload
                 /\ events[j].payload.mission_id \in Ids(missions)}}

\* A matching event of the window carries a mission_id.
SomeEventNamesAMission(k) ==
    \E i \in InWindow :
        /\ TypeOptionalMatch(events[i], triggers[k])
        /\ "mission_id" \in DOMAIN events[i].payload

\* C30: in the trigger phase an enabled create_step trigger with a matching
\* event that names a mission of the store adds exactly one step, PENDING
\* and unclaimed, on a mission so named, with the title, description,
\* step_type and order_index of the action (step_type "other" and
\* order_index 999 when the action has none); when no matching event carries
\* a mission_id it adds nothing, is not counted as fired and keeps its
\* last_fired_at.
C30_CreateStepFromAction ==
    [][\A k \in EnabledTriggers :
          (pc = "triggers" /\ triggers[k].action.type = "create_step") =>
              /\ HasUsableEvent(k) =>
                    /\ Cardinality(StepsAddedFor(k)) = 1
                    /\ \A i \in StepsAddedFor(k) :
                          LET action == triggers[k].action
                          IN  /\ steps'[i].mission_id \in MissionsNamedFor(k)
                              /\ steps'[i].status = "pending"
                              /\ steps'[i].claimed_by_agent_id = None
                              /\ "title" \in DOMAIN action =>
                                     steps'[i].title = action.title
                              /\ "description" \in DOMAIN action =>
                                     steps'[i].description = action.description
                              /\ steps'[i].step_type =
                                     IF "step_type" \in DOMAIN action
                                     THEN action.step_type ELSE "other"
                              /\ steps'[i].order_index =
                                     IF "order_index" \in DOMAIN action
                                     THEN action.order_index ELSE 999
              /\ ~SomeEventNamesAMission(k) =>
                    /\ StepsAddedFor(k) = {}
                    /\ k \notin tick_result'.succeeded
                    /\ tick_result'.triggers_fired =
                           Cardinality({j \in Ids(triggers) \ {k} :
                                           Succeeded(j)})
                    /\ triggers'[k].last_fired_at = triggers[k].last_fired_at
    ]_vars

\* Both cases have happened: a trigger whose action has no fields has added
\* its step to mission 1, and a later tick, past the window, has left the
\* trigger as it was.
C30_Witness ==
    /\ pc = "missions"
    /\ now > TriggerWindowMinutes
    /\ tick_result.triggers_evaluated > 0
    /\ tick_result.triggers_fired = 0
    /\ \E k \in Ids(triggers) :
          /\ triggers[k].name = "kickoff"
          /\ triggers[k].last_fired_at = 0
    /\ \E i \in Ids(steps) :
          /\ steps[i].title = "Auto-generated step"
          /\ steps[i].mission_id = 1
          /\ steps[i].step_type = "other"
          /\ steps[i].order_index = DefaultOrderIndex

(***************************************************************************)
(* Closure happens once.                                                   *)
(***************************************************************************)
\* The mission.completed events of the list for mission m.
CompletedEventsOf(evts, m) ==
    {i \in Ids(evts) : /\ evts[i].event_type = "mission.completed"
                       /\ evts[i].payload.mission_id = m}

\* The events of the window that carry the id of mission m.
WindowEventsNaming(m) ==
    {i \in InWindow : /\ "mission_id" \in DOMAIN events[i].payload
                      /\ events[i].payload.mission_id = m}

\* C31: a step of the behaviour that closes a mission finds it ACTIVE and
\* without a mission.completed event and emits exactly one; so no mission
\* ever has two mission.completed events, however many events of the
\* window carry its id.
C31_ClosedOnce ==
    /\ [](\A m \in Ids(missions) :
             Cardinality(CompletedEventsOf(events, m)) <= 1)
    /\ [][\A m \in Ids(missions) :
             /\ Closes(m) =>
                   /\ missions[m].status = "active"
                   /\ CompletedEventsOf(events, m) = {}
                   /\ Cardinality(CompletedEventsOf(events', m)) = 1
             /\ ~Closes(m) =>
                   CompletedEventsOf(events', m) = CompletedEventsOf(events, m)
       ]_vars

\* A tick with a completion trigger has run on a mission that was already
\* COMPLETED while several events of the window carried its id.
C31_Witness ==
    /\ pc = "done"
    /\ \E k \in Ids(triggers) :
          triggers[k].action.type = "evaluate_mission_completion"
    /\ \E m \in Ids(missions) :
          /\ m \in Ids(tick_start.missions)
          /\ tick_start.missions[m].status = "completed"
          /\ Cardinality(WindowEventsNaming(m)) >= 2
          /\ Cardinality(CompletedEventsOf(events, m)) = 1

(***************************************************************************)
(* The status of a mission moves forward.                                  *)
(***************************************************************************)
\* The changes of status a mission may go through.
MissionMoves == {<<"planned", "active">>, <<"active", "completed">>}

\* This step of the behaviour gives mission m, which had no step, its
\* default steps.
Materializes(m) ==
    /\ StepsOf(steps, m) = {}
    /\ {steps'[i].title : i \in StepsOf(steps', m)} = DefaultTitles

\* C32: a new mission is PLANNED; a mission changes status only from
\* PLANNED to ACTIVE, which it does in the phase that gives it its steps, or
\* from ACTIVE to COMPLETED; a COMPLETED mission is never changed, its
\* completed_at included.
C32_MissionMovesForward ==
    [][/\ \A m \in Ids(missions') \ Ids(missions) :
             missions'[m].status = "planned"
       /\ \A m \in Ids(missions) :
             /\ missions'[m].status # missions[m].status =>
                    <<missions[m].status, missions'[m].status>> \in MissionMoves
             /\ Materializes(m) => missions'[m].status = "active"
             /\ (missions[m].status = "planned"
                    /\ missions'[m].status = "active") =>
                        pc = "steps" /\ Materializes(m)
             /\ missions[m].status = "completed" =>
                    missions'[m] = missions[m]]_vars

\* A tick has run, after the clock moved, on a mission completed before.
C32_Witness ==
    /\ pc = "done"
    /\ \E m \in Ids(missions) :
          /\ missions[m].status = "completed"
          /\ missions[m].completed_at # NoTime
          /\ missions[m].completed_at < now

(***************************************************************************)
(* The frames of a stream.                                                 *)
(***************************************************************************)
\* The blank lines among the lines read.
BlankLines(read) == {p \in Ids(read) : read[p] = <<>>}

\* The lines of the frame that the blank line p ends: those after the blank
\* line before it.
FrameLines(read, p) ==
    {q \in 1..(p - 1) : \A b \in BlankLines(read) : b < p => b < q}

\* The data lines and the event lines of that frame.
DataLinesOf(read, p) ==
    {q \in FrameLines(read, p) : StartsWith(read[q], DataPrefix)}

EventLinesOf(read, p) ==
    {q \in FrameLines(read, p) : StartsWith(read[q], EventPrefix)}

\* The complete frames: the blank lines that end at least one data line.
CompleteFrames(read) == {p \in BlankLines(read) : DataLinesOf(read, p) # {}}

\* The type of the frame: the text of its last event line, or "message".
FrameType(read, p) ==
    IF EventLinesOf(read, p) = {} THEN MessageType
    ELSE LET q == CHOOSE x \in EventLinesOf(read, p) :
                      \A y \in EventLinesOf(read, p) : y <= x
             text == TextAfter(read[q], EventPrefix)
         IN  IF text = <<>> THEN MessageType ELSE text

\* The place of frame p among the complete frames.
FrameNumber(read, p) == Cardinality({q \in CompleteFrames(read) : q <= p})

\* C33: the calls of on_event made for the lines read from a connection
\* are one for every complete frame, in the order of the frames, each with
\* the type of its own event line or "message" and with as many data texts
\* as the frame has data lines; nothing is dispatched for a blank line
\* without data or for lines that no blank line ends, a connection made
\* again starts without the data of the one before, and a call that raised
\* is followed by the calls for the later frames.
C33_FramesDispatchedOnce ==
    \A c \in Consumers :
        LET cn == streams.consumer[c]
        IN  /\ Len(cn.dispatched) = Cardinality(CompleteFrames(cn.read))
            /\ \A p \in CompleteFrames(cn.read) :
                  LET call == cn.dispatched[FrameNumber(cn.read, p)]
                  IN  /\ call.event_type = FrameType(cn.read, p)
                      /\ Len(call.data) =
                             Cardinality(DataLinesOf(cn.read, p))

\* A typed frame whose handler raised has been followed by an untyped frame,
\* dispatched as "message", on a connection made after one was lost.
C33_Witness ==
    \E c \in Consumers :
        LET cn == streams.consumer[c]
        IN  /\ cn.slept > 0
            /\ Len(cn.dispatched) = 2
            /\ cn.dispatched[1].handled = "raised"
            /\ cn.dispatched[1].event_type # MessageType
            /\ cn.dispatched[2].event_type = MessageType

(***************************************************************************)
(* A consumer reconnects until it is cancelled.                            *)
(***************************************************************************)
\* C34: a consumer has ended only if it was cancelled, and a consumer that
\* lost its connection or failed to connect, and so sleeps, later attempts
\* to connect again unless it is cancelled.
C34_ReconnectsUntilCancelled ==
    \A c \in ConsumersOf({"b1"}) :
        /\ [](streams.consumer[c].pc = "done" => streams.consumer[c].cancelled)
        /\ [](streams.consumer[c].pc = "sleep" =>
                 <>(\/ streams.consumer[c].pc = "connect"
                    \/ streams.consumer[c].cancelled))

\* A consumer attempts to connect after its third failure in a row.
C34_Witness ==
    \E c \in ConsumersOf({"b1"}) :
        /\ streams.consumer[c].pc = "connect"
        /\ streams.consumer[c].failures = 3
        /\ streams.consumer[c].slept > InitialBackoff
        /\ ~streams.consumer[c].cancelled

(***************************************************************************)
(* The load order of the plugins.                                          *)
(***************************************************************************)
\* The plugins that can be loaded: the largest set of manifests of which
\* each has all its dependencies in the set, reached through dependencies
\* that end: a plugin is loadable at level n when all its dependencies are
\* loadable at a level below n.
LoadableAt[n \in 0..Len(PluginDirs)] ==
    IF n = 0 THEN {}
    ELSE {name \in NamesOf(plugins.manifests) :
            LET m == ByName(plugins.manifests, name)
            IN  \A k \in Ids(m.depends_on) :
                    m.depends_on[k] \in LoadableAt[n - 1]}

Loadable == LoadableAt[Len(PluginDirs)]

\* The place of a name in the load order.
PlaceOf(name) ==
    CHOOSE i \in Ids(plugins.result) : plugins.result[i] = name

\* C35: the load order has no plugin twice; when the sort has returned it
\* holds exactly the plugins whose dependencies are all present and
\* loadable, each after all the plugins it depends on; and every turn of
\* the loop places one more plugin, of which there are no more than
\* manifests, so that the sort returns.
C35_LoadOrder ==
    /\ [](/\ \A i, j \in Ids(plugins.result) :
                 (plugins.result[i] = plugins.result[j] => i = j)
           /\ (plugins.pc = "sorted" =>
                 /\ {plugins.result[p] : p \in Ids(plugins.result)} = Loadable
                 /\ \A name \in Loadable :
                       LET m == ByName(plugins.manifests, name)
                       IN  \A k \in Ids(m.depends_on) :
                               PlaceOf(m.depends_on[k]) < PlaceOf(name)))
    /\ [][plugins.pc = "sorting" =>
             \/ /\ plugins'.pc = "sorting"
                /\ Len(plugins'.result) = Len(plugins.result) + 1
                /\ Len(plugins'.result) <= Len(plugins.manifests)
             \/ /\ plugins'.pc = "sorted"
                /\ plugins.queue = <<>>
                /\ plugins'.result = plugins.result]_vars

\* The sort has returned an order that is not the order of the
\* directories, and has skipped nothing.
C35_Witness ==
    /\ plugins.pc = "sorted"
    /\ Len(plugins.manifests) = 2
    /\ plugins.result = <<plugins.manifests[2].name, plugins.manifests[1].name>>

(***************************************************************************)
(* A trigger and an event over several ticks.                              *)
(***************************************************************************)
\* The steps of mission m that carry the title trigger k asks for.
TriggerStepsOn(k, m) ==
    {i \in Ids(steps) :
        /\ steps[i].mission_id = m
        /\ steps[i].title = Get(triggers[k].action, "title",
                                "Auto-generated step")}

\* The events of the store that match trigger k and name mission m.
EventsNaming(k, m) ==
    {i \in Ids(events) :
        /\ TypeOptionalMatch(events[i], triggers[k])
        /\ "mission_id" \in DOMAIN events[i].payload
        /\ events[i].payload.mission_id = m}

\* C36: a trigger and an event execute the action at most once over the
\* ticks: a create_step trigger has added to a mission no more steps than
\* there are events that match it and name the mission.
C36_OncePerTriggerAndEvent ==
    \A k \in Ids(triggers) : \A m \in Ids(missions) :
        triggers[k].action.type = "create_step" =>
            Cardinality(TriggerStepsOn(k, m)) <= Cardinality(EventsNaming(k, m))

(***************************************************************************)
(* Progress of the pipeline.                                               *)
(***************************************************************************)
\* Proposal p has a COMPLETED mission whose steps are the 4 default steps,
\* all COMPLETED.
Delivered(p) ==
    \E m \in Ids(missions) :
        /\ missions[m].proposal_id = p
        /\ missions[m].status = "completed"
        /\ Cardinality(StepsOf(steps, m)) = Len(default_steps(m))
        /\ \A i \in StepsOf(steps, m) : steps[i].status = "completed"

\* C37: without triggers, with a gateway that answers ok or is not
\* installed, and with ticks and the work cycles of an agent holding
\* general_work called again and again, every APPROVED proposal comes to
\* have a COMPLETED mission with its 4 steps COMPLETED.
C37_ApprovedIsDelivered ==
    \A p \in 1..MaxProposals :
        (p \in Ids(proposals) /\ proposals[p].status = "approved")
            ~> Delivered(p)

\* A proposal approved by a tick has been delivered, the gateway having
\* answered for one step and been missing for another.
C37_Witness ==
    /\ pc = "done"
    /\ triggers = <<>>
    /\ \E p \in Ids(proposals) :
          /\ proposals[p].status = "approved"
          /\ Delivered(p)
    /\ \E i, j \in Ids(events) :
          /\ events[i].event_type = "step.completed"
          /\ events[j].event_type = "step.completed"
          /\ "simulated" \in DOMAIN events[i].payload
          /\ "simulated" \notin DOMAIN events[j].payload

(***************************************************************************)
(* A stuck mission over several ticks.                                     *)
(***************************************************************************)
\* The mission.escalated events of the store that name mission m.
EscalationsOf(m) ==
    {k \in Ids(events) :
        /\ events[k].event_type = "mission.escalated"
        /\ events[k].payload.mission_id = m}

\* Nothing of mission m was written after its escalation k: a step that has
\* ended (and a stuck mission has no other) is written no more.
UnchangedSince(m, k) ==
    \A s \in StepsOf(steps, m) :
        /\ steps[s].status \in {"failed", "completed"}
        /\ steps[s].completed_at <= events[k].created_at

\* C38: a stuck mission is escalated at most once: the escalation phase
\* posts no ask-user message and records no mission.escalated event for a
\* mission that has such an event since which it has not changed.
C38_EscalatedOnce ==
    [][Escalates =>
          \A m \in Ids(missions) :
              (\E k \in EscalationsOf(m) : UnchangedSince(m, k)) =>
                  NewCalls(m) = {} /\ NewEscalations(m) = {}]_vars

(***************************************************************************)
(* The order of the steps of a mission.                                    *)
(***************************************************************************)
\* Agent a's cycle sets its step RUNNING in this step of the behaviour.
StartsStep(a) == work[a].pc = "start" /\ work'[a].pc = "dispatch"

\* The steps of the mission of step s that come before it by order_index.
LowerSteps(s) ==
    {r \in StepsOf(steps, steps[s].mission_id) :
        steps[r].order_index < steps[s].order_index}

\* C39 as stated: a work cycle never sets a step RUNNING while a step of
\* the same mission with a lower order_index is not COMPLETED.
C39_StartsInOrder ==
    [][\A a \in DOMAIN Agents :
          StartsStep(a) =>
              \A r \in LowerSteps(work[a].step) :
                  steps[r].status = "completed"]_vars

\* C39: the step a work cycle takes is the first by order_index among the
\* steps of its mission that its agent may be given: no step of the same
\* mission with a lower order_index is then PENDING or CLAIMED, unclaimed
\* or claimed by the agent, and of a type the agent's capabilities cover;
\* and the step the cycle sets RUNNING is the step it took, and no other.
C39_StartsFirstSelectable ==
    [][\A a \in DOMAIN Agents :
          /\ Selects(a) =>
                 \A r \in LowerSteps(work'[a].step) : ~Eligible(a, r)
          /\ StartsStep(a) =>
                 /\ work'[a].step = work[a].step
                 /\ {s \in Ids(steps) : /\ steps[s].status # "running"
                                        /\ steps'[s].status = "running"}
                        = {work[a].step}]_vars

\* The agent holding general_work has set a step RUNNING while an earlier
\* step of the mission is FAILED, and the agent holding write_code has had
\* the step of type code while the earlier step was PENDING.
C39_Witness ==
    /\ work["a1"].pc = "dispatch"
    /\ steps[work["a1"].step].status = "running"
    /\ \E r \in LowerSteps(work["a1"].step) : steps[r].status = "failed"
    /\ \E s \in Ids(steps) :
          /\ steps[s].claimed_by_agent_id = "a2"
          /\ steps[s].status \in {"completed", "failed"}

(***************************************************************************)
(* Work cycles and the status of the mission.                              *)
(***************************************************************************)
\* A work cycle takes step s to its end in this step of the behaviour.
ExecutesStep(s) ==
    /\ pc = "idle"
    /\ pc' = "idle"
    /\ steps[s].status \in {"pending", "claimed"}
    /\ steps'[s].status \in {"completed", "failed"}

\* C40: a work cycle claims and executes only steps of ACTIVE missions.
C40_OnlyActiveMissions ==
    [][\A s \in Ids(steps) :
          ExecutesStep(s) => missions[steps[s].mission_id].status = "active"]_vars

====
